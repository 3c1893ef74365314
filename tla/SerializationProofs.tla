------------------------- MODULE SerializationProofs -------------------------
(***************************************************************************)
(* Proofs about OrderedSet for every set of items and contents, and about  *)
(* Identifiers for all hashes, indexes, numbers of pointers and bytes of   *)
(* other programs.                                                         *)
(*                                                                         *)
(* SetInv is inductive: the dictionary numbers the positions of the list,  *)
(* each once, also when the owners of items change them; while nobody      *)
(* does, each item stands where its key says, and from that no content is  *)
(* in twice.                                                               *)
(*                                                                         *)
(* IdInv says what the wire is of, what was read and what was written      *)
(* again as operators of the model; that they undo each other is proved    *)
(* from the bits up: groups of five bits, the numbers of a pointer, the    *)
(* parts of an address, credentials, DReps and ids of governance actions.  *)
(***************************************************************************)
EXTENDS OrderedSet, Identifiers, SumsProofs

\* What append and each step of extend do to the list and the dictionary.
Inserts(x) == Insert(x) /\ content' = content /\ frozen' = frozen

\* A set without items meets the invariant.
LEMMA InitSet == Init => SetInv
<1> SUFFICES ASSUME Init PROVE SetInv
  OBVIOUS
<1>1. TypeOK
  BY DEF Init, TypeOK, NoKeys
<1>2. list = <<>> /\ Len(list) = 0 /\ \A k \in Contents : dict[k] = 0
  BY DEF Init, NoKeys
<1> QED
  BY <1>1, <1>2 DEF SetInv, IndexBijective, KeysMatch

\* The part of the invariant about the list and the dictionary.
ListInv ==
  /\ content \in [Items -> Contents]
  /\ list \in Seq(Items)
  /\ dict \in [Contents -> Nat]
  /\ IndexBijective
  /\ KeysMatch

\* The keys are the sequence that the dictionary encodes.
KeysEncoded ==
  /\ Keys \in Seq(Contents) /\ Len(Keys) = Len(list)
  /\ \A i \in 1..Len(list) : Keys[i] \in Contents /\ dict[Keys[i]] = i
  /\ \A k \in Contents : dict[k] # 0 => dict[k] \in 1..Len(list) /\ Keys[dict[k]] = k

LEMMA KeysOf ==
  ASSUME ListInv
  PROVE  KeysEncoded
<1> DEFINE n == Len(list)
<1>1. n \in Nat /\ \A k \in Contents : dict[k] \in Nat
  BY DEF ListInv
<1>2. ASSUME NEW i \in 1..n
      PROVE  (CHOOSE k \in Contents : dict[k] = i) \in Contents
             /\ dict[CHOOSE k \in Contents : dict[k] = i] = i
  BY <1>2 DEF ListInv, IndexBijective
<1>3. Keys \in [1..n -> Contents] /\ \A i \in 1..n : dict[Keys[i]] = i
  BY <1>2 DEF Keys
<1>4. Keys \in Seq(Contents) /\ Len(Keys) = n
  BY <1>1, <1>3
<1>5. ASSUME NEW k \in Contents, dict[k] # 0
      PROVE  dict[k] \in 1..n /\ Keys[dict[k]] = k
  <2>1. dict[k] \in 1..n
    BY <1>1, <1>5 DEF ListInv, IndexBijective
  <2>2. Keys[dict[k]] \in Contents /\ dict[Keys[dict[k]]] = dict[k]
    BY <2>1, <1>3
  <2> QED
    BY <2>1, <2>2, <1>5 DEF ListInv, IndexBijective
<1> QED
  BY <1>3, <1>4, <1>5 DEF KeysEncoded

\* append keeps the numbering (serialization.py:1152-1156).
LEMMA InsertKeeps ==
  ASSUME ListInv, NEW x \in Items, Inserts(x)
  PROVE  ListInv'
<1>1. CASE Contains(x)
  BY <1>1 DEF Inserts, Insert, ListInv, IndexBijective, KeysMatch
<1>2. CASE ~Contains(x)
  <2> DEFINE n == Len(list)
             c == content[x]
  <2>1. /\ c \in Contents /\ dict[c] = 0 /\ n \in Nat
        /\ content' = content
        /\ list' = Append(list, x)
        /\ dict' = [dict EXCEPT ![c] = n + 1]
    BY <1>2 DEF Inserts, Insert, Contains, ListInv
  <2>2. /\ list' \in Seq(Items) /\ Len(list') = n + 1
        /\ list'[n + 1] = x
        /\ \A i \in 1..n : list'[i] = list[i]
    BY <2>1 DEF ListInv
  <2>3. /\ dict' \in [Contents -> Nat]
        /\ dict'[c] = n + 1
        /\ \A k \in Contents : k # c => dict'[k] = dict[k]
    BY <2>1 DEF ListInv
  <2>4. \A k \in Contents : dict'[k] <= Len(list')
    BY <2>1, <2>2, <2>3 DEF ListInv, IndexBijective
  <2>5. \A i \in 1..Len(list') : \E k \in Contents : dict'[k] = i
    <3> TAKE i \in 1..Len(list')
    <3>1. CASE i = n + 1
      BY <3>1, <2>1, <2>3
    <3>2. CASE i # n + 1
      <4>1. i \in 1..n
        BY <3>2, <2>1, <2>2
      <4>2. PICK k \in Contents : dict[k] = i
        BY <4>1 DEF ListInv, IndexBijective
      <4> QED
        BY <4>1, <4>2, <2>1, <2>3
    <3> QED
      BY <3>1, <3>2
  <2>6. \A k, l \in Contents : dict'[k] = dict'[l] /\ dict'[k] # 0 => k = l
    <3>1. \A k \in Contents : dict[k] <= n /\ dict[k] \in Nat
      BY DEF ListInv, IndexBijective
    <3> QED
      BY <3>1, <2>1, <2>3 DEF ListInv, IndexBijective
  <2>7. KeysMatch'
    <3> SUFFICES ASSUME frozen, NEW i \in 1..Len(list')
                 PROVE  dict'[content'[list'[i]]] = i
      BY DEF KeysMatch, Inserts
    <3>1. CASE i = n + 1
      BY <3>1, <2>1, <2>2, <2>3
    <3>2. CASE i # n + 1
      <4>1. i \in 1..n /\ list[i] \in Items
        BY <3>2, <2>1, <2>2 DEF ListInv
      <4>2. dict[content[list[i]]] = i /\ content[list[i]] \in Contents
        BY <4>1 DEF ListInv, KeysMatch
      <4> QED
        BY <4>1, <4>2, <2>1, <2>2, <2>3
    <3> QED
      BY <3>1, <3>2
  <2> QED
    BY <2>1, <2>2, <2>3, <2>4, <2>5, <2>6, <2>7 DEF ListInv, IndexBijective
<1> QED
  BY <1>1, <1>2

\* remove keeps the numbering: the indices behind the removed one move down
\* with the items (serialization.py:1163-1171).
LEMMA RemoveKeeps ==
  ASSUME ListInv, NEW x \in Items, Remove(x)
  PROVE  ListInv'
<1> DEFINE n == Len(list)
           c == content[x]
           p == dict[c]
<1>1. /\ c \in Contents /\ n \in Nat /\ p \in 1..n
      /\ content' = content
      /\ list' = RemoveAt(list, p)
      /\ dict' = [k \in Contents |->
                    IF k = c THEN 0
                    ELSE IF dict[k] > p THEN dict[k] - 1 ELSE dict[k]]
  BY DEF Remove, Contains, ListInv, IndexBijective
<1>2. /\ list' \in Seq(Items) /\ Len(list') = n - 1
      /\ \A i \in 1..(n - 1) : list'[i] = IF i < p THEN list[i] ELSE list[i + 1]
  <2>1. list' = [j \in 1..(n - 1) |-> IF j < p THEN list[j] ELSE list[j + 1]]
    BY <1>1 DEF RemoveAt
  <2>2. \A j \in 1..(n - 1) :
          (IF j < p THEN list[j] ELSE list[j + 1]) \in Items
    BY <1>1 DEF ListInv
  <2>3. n - 1 \in Nat
    BY <1>1
  <2>4. list' \in [1..(n - 1) -> Items]
    BY <2>1, <2>2
  <2> QED
    BY <2>1, <2>3, <2>4
<1>3. \A k \in Contents : dict[k] \in 0..n
  BY <1>1 DEF ListInv, IndexBijective
<1>4. \A k, l \in Contents : dict[k] = dict[l] /\ dict[k] # 0 => k = l
  BY DEF ListInv, IndexBijective
<1>5. \A k \in Contents : k # c => dict[k] # p
  BY <1>1, <1>4
<1>6. /\ dict' \in [Contents -> Nat]
      /\ dict'[c] = 0
      /\ \A k \in Contents :
           /\ k # c /\ dict[k] < p => dict'[k] = dict[k]
           /\ k # c /\ dict[k] > p => dict'[k] = dict[k] - 1
  <2>1. \A k \in Contents :
          (IF k = c THEN 0
           ELSE IF dict[k] > p THEN dict[k] - 1 ELSE dict[k]) \in Nat
    BY <1>1, <1>3
  <2>2. dict' \in [Contents -> Nat]
    BY <2>1, <1>1
  <2> QED
    BY <2>2, <1>1, <1>3
<1>7. \A k \in Contents : dict'[k] <= Len(list')
  BY <1>1, <1>2, <1>3, <1>5, <1>6
<1>8. \A i \in 1..Len(list') : \E k \in Contents : dict'[k] = i
  <2> TAKE i \in 1..Len(list')
  <2>1. CASE i < p
    <3>1. PICK k \in Contents : dict[k] = i
      BY <1>1, <2>1 DEF ListInv, IndexBijective
    <3> QED
      BY <3>1, <2>1, <1>1, <1>6
  <2>2. CASE i >= p
    <3>1. i + 1 \in 1..n /\ i + 1 > p
      BY <2>2, <1>1, <1>2
    <3>2. PICK k \in Contents : dict[k] = i + 1
      BY <3>1 DEF ListInv, IndexBijective
    <3> QED
      BY <3>1, <3>2, <1>1, <1>6
  <2> QED
    BY <2>1, <2>2, <1>1
<1>9. \A k, l \in Contents : dict'[k] = dict'[l] /\ dict'[k] # 0 => k = l
  <2> SUFFICES ASSUME NEW k \in Contents, NEW l \in Contents,
                      dict'[k] = dict'[l], dict'[k] # 0
               PROVE  k = l
    OBVIOUS
  <2>1. k # c /\ l # c
    BY <1>6
  <2>2. dict[k] # p /\ dict[l] # p
    BY <2>1, <1>5
  <2>3. dict[k] \in 0..n /\ dict[l] \in 0..n /\ dict[k] # 0
    BY <2>1, <2>2, <1>1, <1>3, <1>6
  <2>4. dict[k] = dict[l]
    BY <2>1, <2>2, <2>3, <1>1, <1>6
  <2> QED
    BY <2>3, <2>4, <1>4
<1>10. KeysMatch'
  <2> SUFFICES ASSUME frozen, NEW i \in 1..Len(list')
               PROVE  dict'[content'[list'[i]]] = i
    BY DEF KeysMatch, Remove
  <2> DEFINE j == IF i < p THEN i ELSE i + 1
             k == content[list[j]]
  <2>1. j \in 1..n /\ j # p /\ list'[i] = list[j]
    BY <1>1, <1>2
  <2>2. k \in Contents /\ dict[k] = j
    BY <2>1 DEF ListInv, KeysMatch
  <2>3. k # c
    BY <2>1, <2>2
  <2>4. dict'[k] = i
    <3>1. CASE i < p
      <4>1. j = i /\ j < p
        BY <3>1
      <4> HIDE DEF j, k
      <4> QED BY <4>1, <2>2, <2>3, <1>6
    <3>2. CASE ~(i < p)
      <4>1. j = i + 1 /\ j > p /\ i \in Nat
        BY <3>2, <1>1, <1>2
      <4> HIDE DEF j, k
      <4> QED BY <4>1, <2>2, <2>3, <1>6
    <3> QED BY <3>1, <3>2
  <2> QED
    BY <2>1, <2>4, <1>1
<1> QED
  BY <1>1, <1>2, <1>6, <1>7, <1>8, <1>9, <1>10 DEF ListInv, IndexBijective

\* Every step keeps the invariant.
LEMMA NextSet == SetInv /\ [Next]_vars => SetInv'
<1> SUFFICES ASSUME SetInv, [Next]_vars PROVE SetInv'
  OBVIOUS
<1>0. ListInv /\ TypeOK
  BY DEF SetInv, TypeOK, ListInv
<1>1. ASSUME NEW x \in Items, AppendItem(x) PROVE SetInv'
  <2>1. ListInv'
    BY <1>0, <1>1, InsertKeeps DEF AppendItem, Inserts
  <2> QED
    BY <1>0, <1>1, <2>1 DEF AppendItem, SetInv, TypeOK, ListInv
<1>2. ASSUME NEW x \in Items, Remove(x) PROVE SetInv'
  <2>1. ListInv'
    BY <1>0, <1>2, RemoveKeeps
  <2> QED
    BY <1>0, <1>2, <2>1 DEF Remove, SetInv, TypeOK, ListInv
<1>3. ASSUME NEW xs \in Iterables, Extend(xs) PROVE SetInv'
  <2>1. xs \in Seq(Items)
    BY <1>3, LengthAssumption DEF Iterables
  <2> QED
    BY <1>0, <1>3, <2>1 DEF Extend, SetInv, TypeOK, IndexBijective, KeysMatch
<1>4. CASE AppendNext
  <2>1. Head(pending) \in Items /\ Tail(pending) \in Seq(Items)
    BY <1>0, <1>4 DEF AppendNext, Idle, TypeOK
  <2>2. ListInv'
    BY <1>0, <1>4, <2>1, InsertKeeps DEF AppendNext, Inserts
  <2>3. pending' \in Seq(Items) /\ source' \in Seq(Contents)
    BY <1>0, <1>4, <2>1 DEF AppendNext, TypeOK
  <2>4. frozen' = frozen
    BY <1>4 DEF AppendNext
  <2> QED
    BY <1>0, <2>2, <2>3, <2>4 DEF SetInv, TypeOK, ListInv
<1>5. CASE Rebuild
  <2>1. /\ content' = content /\ pending' = list /\ source' = Keys /\ frozen' = frozen
        /\ list' = <<>> /\ Len(list') = 0
        /\ dict' \in [Contents -> Nat] /\ \A k \in Contents : dict'[k] = 0
    BY <1>5 DEF Rebuild, NoKeys
  <2>2. Keys \in Seq(Contents)
    BY <1>0, KeysOf DEF KeysEncoded
  <2> QED
    BY <1>0, <2>1, <2>2 DEF SetInv, TypeOK, IndexBijective, KeysMatch
<1>6. ASSUME NEW x \in Items, NEW k \in Contents, Mutate(x, k) PROVE SetInv'
  BY <1>0, <1>6 DEF Mutate, SetInv, TypeOK, ListInv, IndexBijective, KeysMatch
<1>7. CASE UNCHANGED vars
  BY <1>0, <1>7 DEF vars, SetInv, TypeOK, ListInv, IndexBijective, KeysMatch
<1> QED
  BY <1>1, <1>2, <1>3, <1>4, <1>5, <1>6, <1>7 DEF Next

\* The invariant of the set.
THEOREM OrderedSetInvariant == Spec => []SetInv
<1> QED
  BY InitSet, NextSet, PTL DEF Spec

\* The dictionary numbers the positions of the list each once, whatever the
\* owners of the items do to them: remove never meets an index beyond the list
\* (serialization.py:1163-1171).
THEOREM NumberingTheorem == Spec => []IndexBijective
<1>1. SetInv => IndexBijective
  BY DEF SetInv
<1> QED
  BY <1>1, OrderedSetInvariant, PTL

\* While no item changes, no content is twice in the list, however appends,
\* removals and copies follow each other (serialization.py:1152-1171).
THEOREM NoTwinsTheorem == Spec => []NoTwins
<1>1. SetInv => NoTwins
  BY DEF SetInv, TypeOK, KeysMatch, NoTwins
<1> QED
  BY <1>1, OrderedSetInvariant, PTL

-----------------------------------------------------------------------------
(* OrderedSet implements UniqueSequence *)

\* The set under construction and the items still to come are, item by item,
\* the set that is copied, as long as the items are frozen; else they are not
\* more than it had.
CopyInv ==
  source # <<>> =>
    /\ pending # <<>>
    /\ Len(list) + Len(pending) <= Len(source)
    /\ frozen =>
         /\ Len(list) + Len(pending) = Len(source)
         /\ \A i \in 1..Len(list) : Keys[i] = source[i]
         /\ \A j \in 1..Len(pending) : content[pending[j]] = source[Len(list) + j]
         /\ \A i, j \in 1..Len(source) : source[i] = source[j] => i = j

\* The keys are distinct: that is what membership in the dictionary means.
LEMMA KeysDistinct ==
  ASSUME ListInv
  PROVE  /\ \A i, j \in 1..Len(Keys) : Keys[i] = Keys[j] => i = j
         /\ \A k \in Contents : dict[k] # 0 <=> \E i \in 1..Len(Keys) : Keys[i] = k
<1>1. \A k \in Contents : dict[k] \in Nat
  BY DEF ListInv
<1> QED
  BY <1>1, KeysOf DEF KeysEncoded

\* The same after a step.
LEMMA KeysOfNext == ListInv' => KeysEncoded'
<1>1. ListInv => KeysEncoded
  BY KeysOf
<1> QED
  BY <1>1, PTL

\* append adds the content of a new item to the keys (serialization.py:1152-1156).
LEMMA InsertedKeys ==
  ASSUME ListInv, NEW x \in Items, Inserts(x)
  PROVE  /\ Contains(x) => Keys' = Keys /\ list' = list
         /\ ~Contains(x) => Keys' = Append(Keys, content[x]) /\ Len(list') = Len(list) + 1
<1> DEFINE n == Len(list)
           c == content[x]
<1>1. ListInv'
  BY InsertKeeps
<1>2. CASE Contains(x)
  BY <1>2 DEF Inserts, Insert, Keys
<1>3. CASE ~Contains(x)
  <2>1. /\ c \in Contents /\ dict[c] = 0 /\ n \in Nat
        /\ list' = Append(list, x) /\ Len(list') = n + 1
        /\ dict'[c] = n + 1
        /\ \A k \in Contents : k # c => dict'[k] = dict[k]
    BY <1>3 DEF Inserts, Insert, Contains, ListInv
  <2>2. Keys \in Seq(Contents) /\ Len(Keys) = n /\ \A i \in 1..n : dict[Keys[i]] = i /\ Keys[i] \in Contents
    BY KeysOf DEF KeysEncoded
  <2>3. /\ Keys' \in Seq(Contents) /\ Len(Keys') = n + 1
        /\ \A k \in Contents : dict'[k] # 0 => Keys'[dict'[k]] = k
    BY <1>1, <2>1, KeysOfNext DEF KeysEncoded
  <2>4. Keys'[n + 1] = c
    BY <2>1, <2>3
  <2>5. ASSUME NEW i \in 1..n PROVE Keys'[i] = Keys[i]
    <3>1. dict'[Keys[i]] = i /\ Keys[i] \in Contents
      BY <2>1, <2>2
    <3> QED
      BY <3>1, <2>3
  <2>6. Keys' = Append(Keys, c)
    <3> DEFINE more == Append(Keys, c)
    <3>1. /\ more \in Seq(Contents) /\ Len(more) = n + 1 /\ more[n + 1] = c
          /\ \A i \in 1..n : more[i] = Keys[i]
      BY <2>1, <2>2
    <3> HIDE DEF more
    <3>2. \A i \in 1..(n + 1) : Keys'[i] = more[i]
      BY <2>1, <2>4, <2>5, <3>1
    <3>3. Keys' \in [1..(n + 1) -> Contents] /\ more \in [1..(n + 1) -> Contents]
      BY <2>1, <2>3, <3>1
    <3>4. Keys' = more
      BY <3>2, <3>3
    <3> QED
      BY <3>4 DEF more
  <2> QED
    BY <1>3, <2>1, <2>6
<1> QED
  BY <1>2, <1>3

\* remove takes one key out (serialization.py:1163-1171).
LEMMA RemovedKeys ==
  ASSUME ListInv, NEW x \in Items, Remove(x)
  PROVE  \E p \in 1..Len(Keys) :
           Keys' = [j \in 1..(Len(Keys) - 1) |-> IF j < p THEN Keys[j] ELSE Keys[j + 1]]
<1> DEFINE n == Len(list)
           c == content[x]
           p == dict[c]
<1>1. ListInv'
  BY RemoveKeeps
<1>2. /\ c \in Contents /\ n \in Nat /\ p \in 1..n
      /\ list' = RemoveAt(list, p)
      /\ dict' = [k \in Contents |->
                    IF k = c THEN 0
                    ELSE IF dict[k] > p THEN dict[k] - 1 ELSE dict[k]]
  BY DEF Remove, Contains, ListInv, IndexBijective
<1>3. Keys \in Seq(Contents) /\ Len(Keys) = n /\ \A i \in 1..n : dict[Keys[i]] = i /\ Keys[i] \in Contents
  BY KeysOf DEF KeysEncoded
<1>4. Len(list') = n - 1
  BY <1>2 DEF RemoveAt
<1>5. /\ Keys' \in Seq(Contents) /\ Len(Keys') = n - 1
      /\ \A k \in Contents : dict'[k] # 0 => Keys'[dict'[k]] = k
  BY <1>1, <1>4, KeysOfNext DEF KeysEncoded
<1> DEFINE rest == [j \in 1..(n - 1) |-> IF j < p THEN Keys[j] ELSE Keys[j + 1]]
<1>6. ASSUME NEW j \in 1..(n - 1) PROVE Keys'[j] = rest[j]
  <2>1. CASE j < p
    <3>1. dict[Keys[j]] = j /\ Keys[j] \in Contents
      BY <1>2, <1>3
    <3>2. dict'[Keys[j]] = j
      BY <2>1, <3>1, <1>2
    <3> QED
      BY <2>1, <3>1, <3>2, <1>5
  <2>2. CASE j >= p
    <3>1. dict[Keys[j + 1]] = j + 1 /\ Keys[j + 1] \in Contents /\ Keys[j + 1] # c
      BY <2>2, <1>2, <1>3
    <3>2. dict'[Keys[j + 1]] = j
      BY <2>2, <3>1, <1>2
    <3> QED
      BY <2>2, <3>1, <3>2, <1>5, <1>2
  <2> QED
    BY <2>1, <2>2, <1>2
<1>7. Keys' = rest
  <2>1. DOMAIN Keys' = 1..(n - 1) /\ Keys' = [j \in DOMAIN Keys' |-> Keys'[j]]
    BY <1>5
  <2> QED
    BY <2>1, <1>6
<1> HIDE DEF n, p
<1>8. p \in 1..Len(Keys) /\ Len(Keys) = n
  BY <1>2, <1>3
<1> QED
  BY <1>7, <1>8

\* CopyInv holds: an item of a copied set of frozen items is never there yet.
LEMMA NextCopy ==
  ASSUME SetInv, CopyInv, [Next]_vars
  PROVE  CopyInv'
<1> DEFINE n == Len(list)
<1>1. /\ ListInv /\ TypeOK /\ KeysEncoded /\ n \in Nat
      /\ pending \in Seq(Items) /\ source \in Seq(Contents)
  BY KeysOf DEF SetInv, TypeOK, ListInv
<1>2. Idle => source = <<>>
  BY DEF Idle, CopyInv
<1>3. CASE Idle /\ source' = source
  BY <1>2, <1>3 DEF CopyInv
<1>4. CASE Rebuild
  <2>1. /\ Idle /\ list # <<>> /\ source' = Keys /\ pending' = list /\ list' = <<>>
        /\ content' = content /\ frozen' = frozen
    BY <1>4 DEF Rebuild
  <2>2. Len(list') = 0 /\ Len(source') = n /\ Len(pending') = n
    BY <1>1, <2>1 DEF KeysEncoded
  <2>3. ASSUME frozen, NEW j \in 1..n
        PROVE  content[list[j]] = Keys[j]
    <3>1. content[list[j]] \in Contents /\ dict[content[list[j]]] = j /\ j # 0
      BY <1>1, <2>3 DEF ListInv, KeysMatch
    <3> QED
      BY <1>1, <3>1 DEF KeysEncoded
  <2>4. \A i, j \in 1..Len(source') : source'[i] = source'[j] => i = j
    BY <1>1, <2>1, KeysDistinct
  <2> HIDE DEF n
  <2>5. frozen' => \A j \in 1..Len(pending') : content'[pending'[j]] = source'[Len(list') + j]
    BY <1>1, <2>1, <2>2, <2>3
  <2> QED
    BY <1>1, <2>1, <2>2, <2>4, <2>5 DEF CopyInv
<1>5. CASE AppendNext /\ (source = <<>> \/ Tail(pending) = <<>>)
  BY <1>5 DEF AppendNext, CopyInv
<1>6. CASE AppendNext /\ source # <<>> /\ Tail(pending) # <<>>
  <2> DEFINE h == Head(pending)
             m == Len(pending)
  <2>1. /\ pending # <<>> /\ pending' = Tail(pending) /\ source' = source
        /\ content' = content /\ frozen' = frozen /\ Insert(h)
    BY <1>6 DEF AppendNext, Idle
  <2>2. /\ h \in Items /\ h = pending[1] /\ m \in Nat /\ m >= 1
        /\ Len(pending') = m - 1
        /\ \A j \in 1..(m - 1) : pending'[j] = pending[j + 1]
    BY <1>1, <2>1
  <2>3. n + m <= Len(source) /\ Len(source) \in Nat
    BY <1>1, <1>6 DEF CopyInv
  <2>4. /\ Contains(h) => Keys' = Keys /\ list' = list
        /\ ~Contains(h) => Keys' = Append(Keys, content[h]) /\ Len(list') = n + 1
    BY <1>1, <2>1, <2>2, InsertedKeys DEF Inserts
  <2>5. Len(list') + Len(pending') <= Len(source')
    BY <1>1, <2>1, <2>2, <2>3, <2>4
  <2>6. ASSUME frozen
        PROVE  /\ Len(list') + Len(pending') = Len(source')
               /\ \A i \in 1..Len(list') : Keys'[i] = source'[i]
               /\ \A j \in 1..Len(pending') : content'[pending'[j]] = source'[Len(list') + j]
               /\ \A i, j \in 1..Len(source') : source'[i] = source'[j] => i = j
    <3>1. /\ n + m = Len(source)
          /\ \A i \in 1..n : Keys[i] = source[i]
          /\ \A j \in 1..m : content[pending[j]] = source[n + j]
          /\ \A i, j \in 1..Len(source) : source[i] = source[j] => i = j
      BY <1>6, <2>6 DEF CopyInv
    <3>2. content[h] = source[n + 1] /\ content[h] \in Contents
      BY <1>1, <2>2, <3>1 DEF ListInv
    <3>3. ~Contains(h)
      <4> SUFFICES ASSUME Contains(h) PROVE FALSE
        OBVIOUS
      <4>1. dict[content[h]] \in 1..n /\ Keys[dict[content[h]]] = content[h]
        BY <1>1, <3>2 DEF Contains, KeysEncoded
      <4> QED
        BY <1>1, <2>2, <3>1, <3>2, <4>1
    <3>4. Keys' = Append(Keys, content[h]) /\ Len(list') = n + 1
      BY <2>4, <3>3
    <3>5. /\ Len(Keys) = n /\ Keys \in Seq(Contents)
          /\ Keys'[n + 1] = content[h] /\ \A i \in 1..n : Keys'[i] = Keys[i]
      BY <1>1, <3>2, <3>4 DEF KeysEncoded
    <3>6. \A i \in 1..Len(list') : Keys'[i] = source'[i]
      BY <1>1, <2>1, <3>1, <3>2, <3>4, <3>5
    <3>7. \A j \in 1..Len(pending') : content'[pending'[j]] = source'[Len(list') + j]
      <4> TAKE j \in 1..Len(pending')
      <4>1. j + 1 \in 1..m /\ pending'[j] = pending[j + 1]
        BY <2>2
      <4>2. content[pending[j + 1]] = source[n + (j + 1)]
        BY <3>1, <4>1
      <4>3. n + (j + 1) = Len(list') + j
        BY <1>1, <2>2, <3>4
      <4> QED
        BY <2>1, <4>1, <4>2, <4>3
    <3>8. Len(list') + Len(pending') = Len(source')
      BY <1>1, <2>1, <2>2, <3>1, <3>4
    <3>9. \A i, j \in 1..Len(source') : source'[i] = source'[j] => i = j
      BY <2>1, <3>1
    <3> QED
      BY <3>6, <3>7, <3>8, <3>9
  <2>7. pending' # <<>>
    BY <1>6, <2>1
  <2> QED
    BY <2>1, <2>5, <2>6, <2>7 DEF CopyInv
<1>7. CASE UNCHANGED vars
  BY <1>7 DEF vars, CopyInv, Keys
<1>8. ASSUME NEW x \in Items, AppendItem(x) \/ Remove(x) \/ \E k \in Contents : Mutate(x, k)
      PROVE  Idle /\ source' = source
  BY <1>8 DEF AppendItem, Remove, Mutate
<1>9. ASSUME NEW xs \in Iterables, Extend(xs)
      PROVE  Idle /\ source' = source
  BY <1>9 DEF Extend
<1> QED
  BY <1>3, <1>4, <1>5, <1>6, <1>7, <1>8, <1>9 DEF Next

\* Inserting an item is an Add or no step of the sequence of keys.
LEMMA InsertRefines ==
  ASSUME ListInv, NEW x \in Items, Inserts(x)
  PROVE  /\ Keys' \in Seq(Contents)
         /\ \/ Keys' = Keys
            \/ \E k \in Contents : /\ ~\E i \in 1..Len(Keys) : Keys[i] = k
                                   /\ Keys' = Append(Keys, k)
<1>1. Keys \in Seq(Contents) /\ content[x] \in Contents
  BY KeysOf DEF KeysEncoded, ListInv
<1>2. CASE Contains(x)
  BY <1>1, <1>2, InsertedKeys
<1>3. CASE ~Contains(x)
  <2>1. ~\E i \in 1..Len(Keys) : Keys[i] = content[x]
    BY <1>1, <1>3, KeysDistinct DEF Contains
  <2>2. Keys' = Append(Keys, content[x])
    BY <1>3, InsertedKeys
  <2> QED
    BY <1>1, <2>1, <2>2
<1> QED
  BY <1>2, <1>3

\* A copy that is complete: the keys of the new set are those of the old one
\* when the items are frozen, and else distinct and not more.
LEMMA CopyRefines ==
  ASSUME SetInv, CopyInv, SetInv', AppendNext, source # <<>>, Tail(pending) = <<>>
  PROVE  /\ frozen => Keys' = source
         /\ Keys' \in UNION {[1..n -> Contents] : n \in 0..Len(source)}
         /\ \A i, j \in 1..Len(Keys') : Keys'[i] = Keys'[j] => i = j
<1> DEFINE h == Head(pending)
           n == Len(list)
<1>1. /\ ListInv /\ ListInv' /\ KeysEncoded /\ KeysEncoded' /\ n \in Nat
      /\ pending \in Seq(Items) /\ source \in Seq(Contents)
  <2>1. ListInv
    BY DEF SetInv, TypeOK, ListInv
  <2>2. ListInv'
    BY DEF SetInv, TypeOK, ListInv
  <2>3. n \in Nat /\ pending \in Seq(Items) /\ source \in Seq(Contents)
    BY DEF SetInv, TypeOK
  <2>4. KeysEncoded /\ KeysEncoded'
    BY <2>1, <2>2, KeysOf, KeysOfNext
  <2> QED BY <2>1, <2>2, <2>3, <2>4
<1>2. /\ pending # <<>> /\ Len(pending) = 1 /\ h = pending[1] /\ h \in Items
      /\ content' = content /\ frozen' = frozen /\ Insert(h)
  <2>1. /\ pending # <<>> /\ content' = content /\ frozen' = frozen /\ Insert(h)
    BY DEF AppendNext, Idle
  <2>2. /\ Len(pending) \in Nat \ {0} /\ h = pending[1] /\ h \in Items
        /\ Len(Tail(pending)) = Len(pending) - 1 /\ Len(<<>>) = 0
    BY <1>1, <2>1
  <2>3. Len(pending) = 1
    <3>1. Len(Tail(pending)) = 0
      BY <2>2
    <3> HIDE DEF h
    <3> QED
      BY <2>2, <3>1
  <2> QED
    BY <2>1, <2>2, <2>3
<1>3. /\ Contains(h) => Keys' = Keys /\ list' = list
      /\ ~Contains(h) => Keys' = Append(Keys, content[h]) /\ Len(list') = n + 1
  BY <1>1, <1>2, InsertedKeys DEF Inserts
<1>4. /\ n + 1 <= Len(source) /\ Len(source) \in Nat
      /\ Keys' \in Seq(Contents) /\ Len(Keys') = Len(list')
  BY <1>1, <1>2 DEF CopyInv, KeysEncoded
<1>5. Len(Keys') \in 0..Len(source)
  BY <1>1, <1>3, <1>4
<1>6. Keys' \in [1..Len(Keys') -> Contents]
  BY <1>4
<1>7. Keys' \in UNION {[1..m -> Contents] : m \in 0..Len(source)}
  BY <1>5, <1>6
<1>8. \A i, j \in 1..Len(Keys') : Keys'[i] = Keys'[j] => i = j
  BY <1>1, <1>4 DEF KeysEncoded
<1>9. ASSUME frozen PROVE Keys' = source
  <2>1. /\ n + 1 = Len(source)
        /\ \A i \in 1..n : Keys[i] = source[i]
        /\ content[pending[1]] = source[n + 1]
        /\ \A i, j \in 1..Len(source) : source[i] = source[j] => i = j
    BY <1>2, <1>9 DEF CopyInv
  <2>2. content[h] = source[n + 1] /\ content[h] \in Contents
    BY <1>1, <1>2, <2>1 DEF ListInv
  <2>3. ~Contains(h)
    <3> SUFFICES ASSUME Contains(h) PROVE FALSE
      OBVIOUS
    <3>1. dict[content[h]] \in 1..n /\ Keys[dict[content[h]]] = content[h]
      BY <1>1, <2>2 DEF Contains, KeysEncoded
    <3> QED
      BY <1>1, <2>1, <2>2, <3>1
  <2>4. Keys' = Append(Keys, content[h]) /\ Len(Keys') = n + 1
    BY <1>3, <1>4, <2>3
  <2>5. Keys \in Seq(Contents) /\ Len(Keys) = n
    BY <1>1 DEF KeysEncoded
  <2>6. Keys'[n + 1] = content[h] /\ \A i \in 1..n : Keys'[i] = Keys[i]
    BY <1>1, <2>2, <2>4, <2>5
  <2>7. \A i \in 1..(n + 1) : Keys'[i] = source[i]
    BY <1>1, <2>1, <2>2, <2>6
  <2>8. Keys' \in [1..(n + 1) -> Contents] /\ source \in [1..(n + 1) -> Contents]
    BY <1>1, <1>6, <2>1, <2>4
  <2> QED
    BY <2>7, <2>8
<1> QED
  BY <1>7, <1>8, <1>9

\* Every step of the set is a step of the unique sequence or none.
LEMMA NextRefines ==
  ASSUME SetInv, CopyInv, SetInv', [Next]_vars
  PROVE  [Abstract!Next]_(Abstract!vars)
<1> USE DEF Abstract!vars
<1>1. /\ ListInv /\ KeysEncoded /\ TypeOK
      /\ Keys \in Seq(Contents) /\ Len(Keys) = Len(list)
  BY KeysOf DEF SetInv, TypeOK, ListInv, KeysEncoded
<1>2. Idle => source = <<>>
  BY DEF Idle, CopyInv
<1>3. ASSUME source = <<>>, source' = <<>>, frozen' = frozen, content' = content,
             NEW x \in Items, Insert(x)
      PROVE  [Abstract!Next]_(Abstract!vars)
  <2>1. Members = Keys /\ Members' = Keys'
    BY <1>3 DEF Members
  <2>2. \/ Keys' = Keys
        \/ \E k \in Contents : /\ ~\E i \in 1..Len(Keys) : Keys[i] = k
                               /\ Keys' = Append(Keys, k)
    BY <1>1, <1>3, InsertRefines DEF Inserts
  <2> QED
    BY <1>3, <2>1, <2>2 DEF Abstract!Next, Abstract!Add, Abstract!Has
<1>4. ASSUME NEW x \in Items, AppendItem(x) PROVE [Abstract!Next]_(Abstract!vars)
  BY <1>2, <1>3, <1>4 DEF AppendItem
<1>5. ASSUME NEW x \in Items, Remove(x) PROVE [Abstract!Next]_(Abstract!vars)
  <2>1. source = <<>> /\ source' = <<>> /\ frozen' = frozen
    BY <1>2, <1>5 DEF Remove
  <2>2. Members = Keys /\ Members' = Keys'
    BY <2>1 DEF Members
  <2>3. \E p \in 1..Len(Keys) :
          Keys' = [j \in 1..(Len(Keys) - 1) |-> IF j < p THEN Keys[j] ELSE Keys[j + 1]]
    BY <1>1, <1>5, RemovedKeys
  <2> QED
    BY <2>1, <2>2, <2>3 DEF Abstract!Next, Abstract!Remove
<1>6. ASSUME NEW xs \in Iterables, Extend(xs) PROVE [Abstract!Next]_(Abstract!vars)
  BY <1>6 DEF Extend, Members, Keys
<1>7. CASE AppendNext
  <2>1. /\ Head(pending) \in Items /\ frozen' = frozen /\ content' = content
        /\ Insert(Head(pending))
        /\ source' = IF Tail(pending) = <<>> THEN <<>> ELSE source
    BY <1>1, <1>7 DEF AppendNext, Idle, TypeOK
  <2>2. CASE source = <<>>
    BY <1>3, <2>1, <2>2
  <2>3. CASE source # <<>> /\ Tail(pending) # <<>>
    BY <2>1, <2>3 DEF Members
  <2>4. CASE source # <<>> /\ Tail(pending) = <<>>
    <3>1. Members = source /\ Members' = Keys'
      BY <2>1, <2>4 DEF Members
    <3>2. /\ frozen => Keys' = source
          /\ Keys' \in UNION {[1..n -> Contents] : n \in 0..Len(source)}
          /\ \A i, j \in 1..Len(Keys') : Keys'[i] = Keys'[j] => i = j
      BY <1>7, <2>4, CopyRefines
    <3>3. CASE frozen
      BY <2>1, <3>1, <3>2, <3>3
    <3>4. CASE ~frozen
      BY <2>1, <3>1, <3>2, <3>4
         DEF Abstract!Next, Abstract!Renew, Abstract!Distinct
    <3> QED
      BY <3>3, <3>4
  <2> QED
    BY <2>2, <2>3, <2>4
<1>8. CASE Rebuild
  <2>1. /\ source = <<>> /\ source' = Keys /\ frozen' = frozen /\ list # <<>>
    BY <1>2, <1>8 DEF Rebuild
  <2>2. Keys # <<>>
    BY <1>1, <2>1 DEF TypeOK
  <2> QED
    BY <2>1, <2>2 DEF Members
<1>9. ASSUME NEW x \in Items, NEW k \in Contents, Mutate(x, k)
      PROVE  [Abstract!Next]_(Abstract!vars)
  BY <1>9 DEF Mutate, Members, Keys
<1>10. CASE UNCHANGED vars
  BY <1>10 DEF vars, Members, Keys
<1> QED
  BY <1>4, <1>5, <1>6, <1>7, <1>8, <1>9, <1>10 DEF Next

\* OrderedSet implements UniqueSequence, for all items and contents
\* (serialization.py:1137-1238).
THEOREM Refinement == Spec => ImplementsUniqueSequence
<1>1. Init => CopyInv /\ Abstract!Init
  <2> SUFFICES ASSUME Init PROVE CopyInv /\ Abstract!Init
    OBVIOUS
  <2>1. source = <<>> /\ list = <<>> /\ Len(list) = 0 /\ frozen \in BOOLEAN
    BY DEF Init
  <2>2. Keys = <<>>
    BY <2>1 DEF Keys
  <2> QED
    BY <2>1, <2>2 DEF CopyInv, Members, Abstract!Init
<1>2. SetInv /\ CopyInv /\ [Next]_vars => CopyInv'
  BY NextCopy
<1>3. SetInv /\ CopyInv /\ SetInv' /\ [Next]_vars => [Abstract!Next]_(Abstract!vars)
  BY NextRefines
<1> QED
  BY <1>1, <1>2, <1>3, InitSet, NextSet, PTL
     DEF Spec, ImplementsUniqueSequence, Abstract!Spec

-----------------------------------------------------------------------------
(* Words of bits *)

\* Five bits, the first weighs most.
LEMMA WordOfFive ==
  ASSUME NEW bits, NEW first \in Nat, \A k \in 0..4 : bits[first + k] \in {0, 1}
  PROVE  Word(bits, first, 5) =
           16 * bits[first] + 8 * bits[first + 1] + 4 * bits[first + 2] + 2 * bits[first + 3] + bits[first + 4]
<1> DEFINE b(k) == bits[first + k]
           F(g) == [k \in 0..5 |-> IF k = 0 THEN 0 ELSE 2 * g[k - 1] + bits[first + k - 1]]
           f == [k \in 0..5 |-> IF k = 0 THEN 0 ELSE IF k = 1 THEN b(0) ELSE IF k = 2 THEN 2 * b(0) + b(1)
                 ELSE IF k = 3 THEN 4 * b(0) + 2 * b(1) + b(2)
                 ELSE IF k = 4 THEN 8 * b(0) + 4 * b(1) + 2 * b(2) + b(3)
                 ELSE 16 * b(0) + 8 * b(1) + 4 * b(2) + 2 * b(3) + b(4)]
           value == CHOOSE g : g = F(g)
<1>1. b(0) \in {0, 1} /\ b(1) \in {0, 1} /\ b(2) \in {0, 1} /\ b(3) \in {0, 1} /\ b(4) \in {0, 1}
  OBVIOUS
<1>2. b(0) = bits[first] /\ \A k \in 1..5 : bits[first + k - 1] = b(k - 1)
  OBVIOUS
<1>3. ASSUME NEW k \in 0..5
      PROVE  f[k] = IF k = 0 THEN 0 ELSE 2 * f[k - 1] + b(k - 1)
  <2> HIDE DEF b
  <2> QED
    BY <1>1
<1>4. f = F(f)
  <2> HIDE DEF b
  <2> QED
    BY <1>2, <1>3
<1>5. value = F(value)
  <2> HIDE DEF F, f
  <2> QED
    BY <1>4
<1>6. \A k \in 0..5 : value[k] = IF k = 0 THEN 0 ELSE 2 * value[k - 1] + b(k - 1)
  <2> HIDE DEF value, b
  <2> QED
    BY <1>2, <1>5
<1>7. value[5] = 16 * b(0) + 8 * b(1) + 4 * b(2) + 2 * b(3) + b(4)
  <2> HIDE DEF value, b, F
  <2>1. value[0] = 0 /\ value[1] = b(0) /\ value[2] = 2 * b(0) + b(1)
    BY <1>1, <1>6
  <2>2. value[3] = 4 * b(0) + 2 * b(1) + b(2)
    BY <2>1, <1>1, <1>6
  <2>3. value[4] = 8 * b(0) + 4 * b(1) + 2 * b(2) + b(3)
    BY <2>2, <1>1, <1>6
  <2> QED
    BY <2>3, <1>1, <1>6
<1>8. Word(bits, first, 5) = value[5]
  BY DEF Word
<1> QED
  BY <1>2, <1>7, <1>8

\* Eight bits.
LEMMA WordOfEight ==
  ASSUME NEW bits, NEW first \in Nat, \A k \in 0..7 : bits[first + k] \in {0, 1}
  PROVE  Word(bits, first, 8) =
           128 * bits[first] + 64 * bits[first + 1] + 32 * bits[first + 2] + 16 * bits[first + 3]
           + 8 * bits[first + 4] + 4 * bits[first + 5] + 2 * bits[first + 6] + bits[first + 7]
<1> DEFINE b(k) == bits[first + k]
           F(g) == [k \in 0..8 |-> IF k = 0 THEN 0 ELSE 2 * g[k - 1] + bits[first + k - 1]]
           f == [k \in 0..8 |-> IF k = 0 THEN 0 ELSE IF k = 1 THEN b(0) ELSE IF k = 2 THEN 2 * b(0) + b(1)
                 ELSE IF k = 3 THEN 4 * b(0) + 2 * b(1) + b(2)
                 ELSE IF k = 4 THEN 8 * b(0) + 4 * b(1) + 2 * b(2) + b(3)
                 ELSE IF k = 5 THEN 16 * b(0) + 8 * b(1) + 4 * b(2) + 2 * b(3) + b(4)
                 ELSE IF k = 6 THEN 32 * b(0) + 16 * b(1) + 8 * b(2) + 4 * b(3) + 2 * b(4) + b(5)
                 ELSE IF k = 7 THEN 64 * b(0) + 32 * b(1) + 16 * b(2) + 8 * b(3) + 4 * b(4) + 2 * b(5) + b(6)
                 ELSE 128 * b(0) + 64 * b(1) + 32 * b(2) + 16 * b(3) + 8 * b(4) + 4 * b(5) + 2 * b(6) + b(7)]
           value == CHOOSE g : g = F(g)
<1>1. \A k \in 0..7 : b(k) \in {0, 1}
  OBVIOUS
<1>2. b(0) = bits[first] /\ \A k \in 1..8 : bits[first + k - 1] = b(k - 1)
  OBVIOUS
<1>3. ASSUME NEW k \in 0..8
      PROVE  f[k] = IF k = 0 THEN 0 ELSE 2 * f[k - 1] + b(k - 1)
  <2> HIDE DEF b
  <2> QED
    BY <1>1
<1>4. f = F(f)
  <2> HIDE DEF b
  <2> QED
    BY <1>2, <1>3
<1>5. value = F(value)
  <2> HIDE DEF F, f
  <2> QED
    BY <1>4
<1>6. \A k \in 0..8 : value[k] = IF k = 0 THEN 0 ELSE 2 * value[k - 1] + b(k - 1)
  <2> HIDE DEF value, b
  <2> QED
    BY <1>2, <1>5
<1>7. value[8] = 128 * b(0) + 64 * b(1) + 32 * b(2) + 16 * b(3) + 8 * b(4) + 4 * b(5) + 2 * b(6) + b(7)
  <2> HIDE DEF value, b, F
  <2>1. value[0] = 0 /\ value[1] = b(0) /\ value[2] = 2 * b(0) + b(1)
    BY <1>1, <1>6
  <2>2. value[3] = 4 * b(0) + 2 * b(1) + b(2)
    BY <2>1, <1>1, <1>6
  <2>3. value[4] = 8 * b(0) + 4 * b(1) + 2 * b(2) + b(3)
    BY <2>2, <1>1, <1>6
  <2>4. value[5] = 16 * b(0) + 8 * b(1) + 4 * b(2) + 2 * b(3) + b(4)
    BY <2>3, <1>1, <1>6
  <2>5. value[6] = 32 * b(0) + 16 * b(1) + 8 * b(2) + 4 * b(3) + 2 * b(4) + b(5)
    BY <2>4, <1>1, <1>6
  <2>6. value[7] = 64 * b(0) + 32 * b(1) + 16 * b(2) + 8 * b(3) + 4 * b(4) + 2 * b(5) + b(6)
    BY <2>5, <1>1, <1>6
  <2> QED
    BY <2>6, <1>1, <1>6
<1>8. Word(bits, first, 8) = value[8]
  BY DEF Word
<1> QED
  BY <1>2, <1>7, <1>8

\* A byte is the number that its bits make.
LEMMA ByteOfBits ==
  ASSUME NEW v \in 0..255
  PROVE  /\ \A p \in {1, 2, 4, 8, 16, 32, 64, 128} : (v \div p) % 2 \in {0, 1}
         /\ v = 128 * ((v \div 128) % 2) + 64 * ((v \div 64) % 2) + 32 * ((v \div 32) % 2) + 16 * ((v \div 16) % 2)
                + 8 * ((v \div 8) % 2) + 4 * ((v \div 4) % 2) + 2 * ((v \div 2) % 2) + ((v \div 1) % 2)
OBVIOUS
-----------------------------------------------------------------------------
(* The groups of five bits *)

\* The members of a sequence.
LEMMA MembersOf ==
  ASSUME NEW T, NEW s \in Seq(T)
  PROVE  Len(s) \in Nat /\ \A i \in 1..Len(s) : s[i] \in T
OBVIOUS

\* A sequence with one more member.
LEMMA AppendIs ==
  ASSUME NEW T, NEW s \in Seq(T), NEW x \in T
  PROVE  /\ Append(s, x) \in Seq(T) /\ Len(Append(s, x)) = Len(s) + 1
         /\ Append(s, x)[Len(s) + 1] = x
         /\ \A i \in 1..Len(s) : Append(s, x)[i] = s[i]
OBVIOUS

\* A sequence of three.
LEMMA TripleOf ==
  ASSUME NEW T, NEW s \in Seq(T), Len(s) = 3
  PROVE  s \in T \X T \X T
<1>1. s[1] \in T /\ s[2] \in T /\ s[3] \in T
  OBVIOUS
<1>2. s = <<s[1], s[2], s[3]>>
  OBVIOUS
<1> QED
  BY <1>1, <1>2

LEMMA ConcatAppend ==
  \A s, t \in Seq(Octet) : \A x \in Octet : Append(s \o t, x) = s \o Append(t, x)
OBVIOUS

\* The members of a sequence of bytes.
LEMMA OctetsOf ==
  ASSUME NEW bytes \in Seq(Octet)
  PROVE  Len(bytes) \in Nat /\ \A i \in 1..Len(bytes) : bytes[i] \in 0..255
<1>1. ASSUME NEW i \in 1..Len(bytes)
      PROVE  bytes[i] \in Octet
  OBVIOUS
<1> QED
  BY <1>1 DEF Octet

\* The bits of bytes.
LEMMA ByteBits ==
  ASSUME NEW bytes \in Seq(Octet)
  PROVE  /\ BitsOf(bytes, 8) \in Seq({0, 1}) /\ Len(BitsOf(bytes, 8)) = 8 * Len(bytes)
         /\ \A g \in 1..Len(bytes) : Word(BitsOf(bytes, 8), (g - 1) * 8 + 1, 8) = bytes[g]
<1> DEFINE bits == BitsOf(bytes, 8)
           n == Len(bytes)
           bit(i) == (bytes[(i - 1) \div 8 + 1] \div Power[8 - ((i - 1) % 8)]) % 2
<1>1. n \in Nat /\ \A i \in 1..n : bytes[i] \in 0..255
  BY OctetsOf
<1>2. bits = [i \in 1..(n * 8) |-> bit(i)]
  BY DEF BitsOf
<1>3. \A k \in 1..8 : Power[k] \in {1, 2, 4, 8, 16, 32, 64, 128}
  BY DEF Power
<1>4. ASSUME NEW i \in 1..(n * 8)
      PROVE  (i - 1) \div 8 + 1 \in 1..n /\ 8 - ((i - 1) % 8) \in 1..8
  BY <1>1
<1>5. ASSUME NEW i \in 1..(n * 8)
      PROVE  bit(i) \in {0, 1}
  <2> DEFINE v == bytes[(i - 1) \div 8 + 1]
             p == Power[8 - ((i - 1) % 8)]
  <2>1. v \in 0..255
    BY <1>1, <1>4
  <2>2. p \in {1, 2, 4, 8, 16, 32, 64, 128}
    BY <1>3, <1>4
  <2> HIDE DEF v, p
  <2>3. (v \div p) % 2 \in {0, 1}
    BY <2>1, <2>2, ByteOfBits
  <2> QED
    BY <2>3 DEF v, p
<1>6. bits \in Seq({0, 1}) /\ Len(bits) = 8 * n
  <2> HIDE DEF bit, bits
  <2> QED
    BY <1>1, <1>2, <1>5
<1>7. ASSUME NEW g \in 1..n
      PROVE  Word(bits, (g - 1) * 8 + 1, 8) = bytes[g]
  <2> DEFINE first == (g - 1) * 8 + 1
             v == bytes[g]
             w(p) == (v \div p) % 2
  <2>1. first \in Nat /\ v \in 0..255
    BY <1>1
  <2>2. ASSUME NEW k \in 0..7
        PROVE  bits[first + k] = w(Power[8 - k]) /\ bits[first + k] \in {0, 1}
    <3>1. g \in Nat /\ n \in Nat /\ 1 <= g /\ g <= n
      BY <1>1
    <3>3. first + k \in 1..(n * 8)
      BY <3>1
    <3>4. (first + k - 1) \div 8 + 1 = g
      BY <3>1
    <3>5. (first + k - 1) % 8 = k
      BY <3>1
    <3>2. bits[first + k] = bit(first + k)
      BY <3>3, <1>2
    <3>6. bits[first + k] \in {0, 1}
      BY <3>2, <3>3, <1>5
    <3> QED
      BY <3>2, <3>4, <3>5, <3>6
  <2>3. Power[8] = 128 /\ Power[7] = 64 /\ Power[6] = 32 /\ Power[5] = 16 /\ Power[4] = 8 /\ Power[3] = 4
        /\ Power[2] = 2 /\ Power[1] = 1
    BY DEF Power
  <2> HIDE DEF bits, first, v, w
  <2>4. /\ bits[first] = w(128) /\ bits[first + 1] = w(64) /\ bits[first + 2] = w(32) /\ bits[first + 3] = w(16)
        /\ bits[first + 4] = w(8) /\ bits[first + 5] = w(4) /\ bits[first + 6] = w(2) /\ bits[first + 7] = w(1)
    <3>1. first + 0 = first
      BY <2>1
    <3>2. bits[first + 0] = w(Power[8])
      BY <2>2
    <3> QED
      BY <3>1, <3>2, <2>2, <2>3
  <2>6. Word(bits, first, 8) = v
    <3>1. \A k \in 0..7 : bits[first + k] \in {0, 1}
      BY <2>2
    <3>2. Word(bits, first, 8) =
           128 * bits[first] + 64 * bits[first + 1] + 32 * bits[first + 2] + 16 * bits[first + 3]
           + 8 * bits[first + 4] + 4 * bits[first + 5] + 2 * bits[first + 6] + bits[first + 7]
      BY <3>1, <2>1, WordOfEight
    <3>3. v = 128 * ((v \div 128) % 2) + 64 * ((v \div 64) % 2) + 32 * ((v \div 32) % 2) + 16 * ((v \div 16) % 2)
                + 8 * ((v \div 8) % 2) + 4 * ((v \div 4) % 2) + 2 * ((v \div 2) % 2) + ((v \div 1) % 2)
      BY <2>1, ByteOfBits
    <3> QED
      BY <3>2, <3>3, <2>4 DEF w
  <2> QED
    BY <2>6 DEF first, v, bits
<1> QED
  BY <1>6, <1>7

\* The bits of groups of five that were made from bits.
LEMMA GroupBits ==
  ASSUME NEW m \in Nat, NEW bits \in Seq({0, 1}), Len(bits) = 5 * m
  PROVE  /\ Words(bits, 5) \in Seq(0..31) /\ Len(Words(bits, 5)) = m
         /\ BitsOf(Words(bits, 5), 5) = bits
<1> DEFINE groups == Words(bits, 5)
<1>1. Len(bits) \div 5 = m
  OBVIOUS
<1>2. groups = [g \in 1..m |-> Word(bits, (g - 1) * 5 + 1, 5)]
  BY <1>1 DEF Words
<1>3. ASSUME NEW g \in 1..m
      PROVE  /\ groups[g] \in 0..31
             /\ \A k \in 0..4 : (groups[g] \div Power[5 - k]) % 2 = bits[(g - 1) * 5 + 1 + k]
  <2> DEFINE first == (g - 1) * 5 + 1
             v == groups[g]
  <2>1. first \in Nat /\ \A k \in 0..4 : first + k \in 1..Len(bits)
    OBVIOUS
  <2>2. \A k \in 0..4 : bits[first + k] \in {0, 1}
    BY <2>1
  <2>3. Word(bits, first, 5) =
           16 * bits[first] + 8 * bits[first + 1] + 4 * bits[first + 2] + 2 * bits[first + 3] + bits[first + 4]
    BY <2>1, <2>2, WordOfFive
  <2>4. v = Word(bits, first, 5)
    BY <1>2
  <2>5. Power[5] = 16 /\ Power[4] = 8 /\ Power[3] = 4 /\ Power[2] = 2 /\ Power[1] = 1
    BY DEF Power
  <2>6. bits[first] \in {0, 1} /\ bits[first + 1] \in {0, 1} /\ bits[first + 2] \in {0, 1}
        /\ bits[first + 3] \in {0, 1} /\ bits[first + 4] \in {0, 1}
    <3>1. bits[first + 0] \in {0, 1} /\ first + 0 = first
      BY <2>1, <2>2
    <3> QED
      BY <3>1, <2>2
  <2> HIDE DEF first, v
  <2>7. /\ v \in 0..31
        /\ (v \div 16) % 2 = bits[first] /\ (v \div 8) % 2 = bits[first + 1] /\ (v \div 4) % 2 = bits[first + 2]
        /\ (v \div 2) % 2 = bits[first + 3] /\ (v \div 1) % 2 = bits[first + 4]
    <3> DEFINE a == bits[first]
               b == bits[first + 1]
               c == bits[first + 2]
               d == bits[first + 3]
               e == bits[first + 4]
    <3>1. a \in {0, 1} /\ b \in {0, 1} /\ c \in {0, 1} /\ d \in {0, 1} /\ e \in {0, 1}
          /\ v = 16 * a + 8 * b + 4 * c + 2 * d + e
      BY <2>3, <2>4, <2>6
    <3> HIDE DEF a, b, c, d, e
    <3>2. /\ v \in 0..31
          /\ (v \div 16) % 2 = a /\ (v \div 8) % 2 = b /\ (v \div 4) % 2 = c
          /\ (v \div 2) % 2 = d /\ (v \div 1) % 2 = e
      <4>1. v \div 16 = a /\ v \div 8 = 2 * a + b /\ v \div 4 = 4 * a + 2 * b + c
            /\ v \div 2 = 8 * a + 4 * b + 2 * c + d /\ v \div 1 = v
        BY <3>1
      <4> QED
        BY <3>1, <4>1
    <3> QED
      BY <3>2 DEF a, b, c, d, e
  <2>8. ASSUME NEW k \in 0..4
        PROVE  (v \div Power[5 - k]) % 2 = bits[first + k]
    <3>1. CASE k = 0
      <4>1. Power[5 - k] = 16 /\ first + k = first
        BY <3>1, <2>1, <2>5
      <4> QED BY <4>1, <2>7
    <3>2. CASE k = 1
      <4>1. Power[5 - k] = 8
        BY <3>2, <2>5
      <4> QED BY <3>2, <4>1, <2>7
    <3>3. CASE k = 2
      <4>1. Power[5 - k] = 4
        BY <3>3, <2>5
      <4> QED BY <3>3, <4>1, <2>7
    <3>4. CASE k = 3
      <4>1. Power[5 - k] = 2
        BY <3>4, <2>5
      <4> QED BY <3>4, <4>1, <2>7
    <3>5. CASE k = 4
      <4>1. Power[5 - k] = 1
        BY <3>5, <2>5
      <4> QED BY <3>5, <4>1, <2>7
    <3> QED
      BY <3>1, <3>2, <3>3, <3>4, <3>5
  <2> QED
    BY <2>7, <2>8 DEF first, v
<1>4. groups \in Seq(0..31) /\ Len(groups) = m
  <2> DEFINE word(g) == Word(bits, (g - 1) * 5 + 1, 5)
  <2>1. groups = [g \in 1..m |-> word(g)] /\ \A g \in 1..m : word(g) \in 0..31
    BY <1>2, <1>3
  <2> HIDE DEF groups, word
  <2> QED
    BY <2>1
<1>5. BitsOf(groups, 5) = [i \in 1..(m * 5) |-> (groups[(i - 1) \div 5 + 1] \div Power[5 - ((i - 1) % 5)]) % 2]
  BY <1>4 DEF BitsOf
<1>6. ASSUME NEW i \in 1..(m * 5)
      PROVE  (groups[(i - 1) \div 5 + 1] \div Power[5 - ((i - 1) % 5)]) % 2 = bits[i]
  <2> DEFINE g == (i - 1) \div 5 + 1
             k == (i - 1) % 5
  <2>1. g \in 1..m /\ k \in 0..4 /\ (g - 1) * 5 + 1 + k = i
    OBVIOUS
  <2> HIDE DEF g, k, groups
  <2>2. (groups[g] \div Power[5 - k]) % 2 = bits[i]
    BY <2>1, <1>3
  <2> QED
    BY <2>2 DEF g, k
<1> HIDE DEF groups
<1>7. BitsOf(groups, 5) = [i \in 1..(m * 5) |-> bits[i]]
  BY <1>5, <1>6
<1>8. bits = [i \in 1..(m * 5) |-> bits[i]]
  OBVIOUS
<1> QED
  BY <1>4, <1>7, <1>8 DEF groups

\* Bytes that were made into groups of five bits are found again.
LEMMA GroupsReadBack ==
  ASSUME NEW bytes \in Seq(Octet)
  PROVE  /\ Len(ConvertBits(bytes, 8, 5, TRUE)) = (8 * Len(bytes) + 4) \div 5
         /\ ConvertBits(ConvertBits(bytes, 8, 5, TRUE), 5, 8, FALSE) = bytes
<1> DEFINE n == Len(bytes)
           bits == BitsOf(bytes, 8)
           short == (5 - ((8 * n) % 5)) % 5
           zeros == [i \in 1..short |-> 0]
           padded == bits \o zeros
           m == (8 * n + 4) \div 5
           groups == Words(padded, 5)
           rest == (5 * m) % 8
<1>1. n \in Nat /\ bits \in Seq({0, 1}) /\ Len(bits) = 8 * n
  BY ByteBits
<1>2. short \in 0..4 /\ 8 * n + short = 5 * m /\ m \in Nat /\ m * 5 = 5 * m
  <2> HIDE DEF n
  <2> QED
    BY <1>1
<1>3. rest = short /\ (5 * m) \div 8 = n
  <2> HIDE DEF n, short, m
  <2> QED
    BY <1>1, <1>2
<1>4. zeros \in Seq({0, 1}) /\ Len(zeros) = short /\ \A i \in 1..short : zeros[i] = 0
  <2> HIDE DEF short
  <2> QED
    BY <1>2
<1>5. padded \in Seq({0, 1}) /\ Len(padded) = 5 * m
  <2> HIDE DEF bits, zeros, short, m, n
  <2> QED
    BY <1>1, <1>2, <1>4
<1>6. /\ \A i \in 1..(8 * n) : padded[i] = bits[i]
      /\ \A i \in 1..short : padded[8 * n + i] = 0
  <2> HIDE DEF bits, zeros, short, m, n
  <2> QED
    BY <1>1, <1>2, <1>4
<1>7. ConvertBits(bytes, 8, 5, TRUE) = groups
  <2>1. Len(bits) % 5 = (8 * n) % 5
    BY <1>1
  <2> QED
    BY <2>1 DEF ConvertBits
<1> HIDE DEF groups
<1>8. groups \in Seq(0..31) /\ Len(groups) = m /\ BitsOf(groups, 5) = padded
  <2> HIDE DEF padded, m, bits, n
  <2> QED
    BY <1>2, <1>5, GroupBits DEF groups
<1>9. Words(padded, 8) = bytes
  <2>1. Len(padded) \div 8 = n
    BY <1>3, <1>5
  <2>2. Words(padded, 8) = [g \in 1..n |-> Word(padded, (g - 1) * 8 + 1, 8)]
    BY <2>1 DEF Words
  <2>3. ASSUME NEW g \in 1..n
        PROVE  Word(padded, (g - 1) * 8 + 1, 8) = bytes[g]
    <3> DEFINE first == (g - 1) * 8 + 1
    <3>1. Word(bits, first, 8) = bytes[g]
      BY ByteBits
    <3>2. first \in Nat /\ \A k \in 0..7 : first + k \in 1..(8 * n)
      <4> HIDE DEF n
      <4> QED
        BY <1>1
    <3> HIDE DEF first, padded, bits, n
    <3>3. \A k \in 0..7 : padded[first + k] = bits[first + k] /\ bits[first + k] \in {0, 1}
      BY <1>1, <1>6, <3>2
    <3>4. padded[first] = bits[first]
      <4>1. first + 0 = first
        BY <3>2
      <4> QED
        BY <3>3, <4>1
    <3>5. Word(padded, first, 8) =
           128 * padded[first] + 64 * padded[first + 1] + 32 * padded[first + 2] + 16 * padded[first + 3]
           + 8 * padded[first + 4] + 4 * padded[first + 5] + 2 * padded[first + 6] + padded[first + 7]
      <4>1. \A k \in 0..7 : padded[first + k] \in {0, 1}
        BY <3>3
      <4> QED
        BY <3>2, <4>1, WordOfEight
    <3>6. Word(bits, first, 8) =
           128 * bits[first] + 64 * bits[first + 1] + 32 * bits[first + 2] + 16 * bits[first + 3]
           + 8 * bits[first + 4] + 4 * bits[first + 5] + 2 * bits[first + 6] + bits[first + 7]
      <4>1. \A k \in 0..7 : bits[first + k] \in {0, 1}
        BY <3>3
      <4> QED
        BY <3>2, <4>1, WordOfEight
    <3>7. Word(padded, first, 8) = Word(bits, first, 8)
      BY <3>3, <3>4, <3>5, <3>6
    <3> QED
      BY <3>1, <3>7 DEF first
  <2>4. bytes = [g \in 1..n |-> bytes[g]]
    OBVIOUS
  <2> HIDE DEF padded, n
  <2> QED
    BY <2>2, <2>3, <2>4
<1>10. ConvertBits(groups, 5, 8, FALSE) = bytes
  <2>1. Len(padded) % 8 = rest
    BY <1>5
  <2>2. ~(rest >= 5 \/ \E i \in 1..rest : padded[Len(padded) - rest + i] = 1)
    <3>1. Len(padded) - rest = 8 * n /\ rest = short
      <4> HIDE DEF padded, n, m, short, rest
      <4> QED
        BY <1>1, <1>2, <1>3, <1>5
    <3> HIDE DEF padded, n, m, short, rest
    <3>2. ~(rest >= 5)
      BY <3>1, <1>2
    <3>3. ASSUME NEW i \in 1..rest
          PROVE  padded[Len(padded) - rest + i] # 1
      <4>1. padded[8 * n + i] = 0
        BY <3>1, <1>6
      <4>2. Len(padded) - rest + i = 8 * n + i
        BY <3>1
      <4> QED
        BY <4>1, <4>2
    <3> QED
      BY <3>2, <3>3
  <2> HIDE DEF padded, n, m, short, rest
  <2>3. ConvertBits(groups, 5, 8, FALSE) = Words(padded, 8)
    BY <1>8, <2>1, <2>2 DEF ConvertBits
  <2> QED
    BY <2>3, <1>9
<1> QED
  BY <1>7, <1>8, <1>10

-----------------------------------------------------------------------------
(* The numbers of a pointer *)

DigitsFrom(g, n) == [m \in 0..n |-> IF m = 0 THEN <<>> ELSE Append(g[m \div 128], 128 + (m % 128))]

\* The digits of the numbers up to any one can be listed.
LEMMA DigitsExist ==
  ASSUME NEW n \in Nat
  PROVE  \E g : g = DigitsFrom(g, n)
<1> DEFINE E(k) == \E g : g = DigitsFrom(g, k)
           S == {k \in Nat : ~E(k)}
<1> SUFFICES ASSUME S # {} PROVE FALSE
  OBVIOUS
<1>1. PICK k \in S : \A j \in S : k <= j
  BY LeastMember
<1>2. E(0)
  <2> DEFINE g == [m \in 0..0 |-> <<>>]
  <2>1. g = DigitsFrom(g, 0)
    BY DEF DigitsFrom
  <2> QED
    BY <2>1
<1>3. k # 0 /\ k - 1 \in Nat
  BY <1>1, <1>2
<1>4. PICK g : g = DigitsFrom(g, k - 1)
  <2>1. k - 1 \notin S
    BY <1>1, <1>3
  <2> QED
    BY <2>1, <1>3
<1> DEFINE d(m) == Append(g[m \div 128], 128 + (m % 128))
           h == [m \in 0..k |-> IF m = k THEN d(k) ELSE g[m]]
<1>5. ASSUME NEW m \in 0..k
      PROVE  h[m] = IF m = 0 THEN <<>> ELSE Append(h[m \div 128], 128 + (m % 128))
  <2>1. CASE m = 0
    BY <2>1, <1>3, <1>4 DEF DigitsFrom
  <2>2. CASE m # 0
    <3>1. m \div 128 \in 0..(k - 1) /\ m \in Nat
      BY <2>2, <1>3
    <3>2. h[m \div 128] = g[m \div 128]
      BY <3>1, <1>3
    <3>3. CASE m = k
      BY <3>2, <3>3, <2>2
    <3>4. CASE m # k
      <4>1. m \in 0..(k - 1)
        BY <3>4, <1>3
      <4>2. g[m] = d(m)
        BY <4>1, <2>2, <1>4 DEF DigitsFrom
      <4> QED
        BY <4>2, <3>2, <3>4, <2>2
    <3> QED
      BY <3>3, <3>4
  <2> QED
    BY <2>1, <2>2
<1>6. h = DigitsFrom(h, k)
  <2> HIDE DEF d
  <2> QED
    BY <1>5 DEF DigitsFrom
<1> QED
  BY <1>1, <1>6

\* The digits of a number are those of the number without its last digit, and it.
LEMMA DigitsEquation ==
  ASSUME NEW n \in Nat
  PROVE  UpperDigits(n) = IF n = 0 THEN <<>> ELSE Append(UpperDigits(n \div 128), 128 + (n % 128))
<1> DEFINE D(k) == CHOOSE g : g = DigitsFrom(g, k)
<1>1. \A k \in Nat : D(k) = DigitsFrom(D(k), k)
  BY DigitsExist
<1>2. \A k \in Nat : UpperDigits(k) = D(k)[k]
  BY DEF UpperDigits, DigitsFrom
<1> HIDE DEF D
<1>3. ASSUME NEW k \in Nat, NEW m \in 0..k
      PROVE  D(k)[m] = IF m = 0 THEN <<>> ELSE Append(D(k)[m \div 128], 128 + (m % 128))
  BY <1>1 DEF DigitsFrom
<1>4. ASSUME NEW k \in Nat, NEW l \in 0..k
      PROVE  D(k)[l] = D(l)[l]
  <2> DEFINE S == {m \in 0..l : D(k)[m] # D(l)[m]}
  <2> SUFFICES ASSUME S # {} PROVE FALSE
    OBVIOUS
  <2>1. S \in SUBSET Nat
    OBVIOUS
  <2>2. PICK m \in S : \A j \in S : m <= j
    BY <2>1, LeastMember
  <2>3. m \in 0..k /\ m \in 0..l /\ l \in Nat
    BY <2>2
  <2>4. m # 0
    BY <2>2, <2>3, <1>3
  <2>5. m \div 128 \in 0..l /\ m \div 128 < m
    BY <2>3, <2>4
  <2>6. D(k)[m \div 128] = D(l)[m \div 128]
    BY <2>2, <2>3, <2>5
  <2>7. D(k)[m] = D(l)[m]
    BY <2>3, <2>4, <2>6, <1>3
  <2> QED
    BY <2>2, <2>7
<1>5. CASE n = 0
  BY <1>5, <1>2, <1>3
<1>6. CASE n # 0
  <2>1. n \div 128 \in 0..n /\ n \div 128 \in Nat /\ n \in 0..n
    BY <1>6
  <2>2. D(n)[n \div 128] = UpperDigits(n \div 128)
    BY <2>1, <1>2, <1>4
  <2>3. D(n)[n] = Append(D(n)[n \div 128], 128 + (n % 128))
    BY <2>1, <1>3, <1>6
  <2>4. UpperDigits(n) = D(n)[n]
    BY <1>2
  <2>5. UpperDigits(n) = Append(UpperDigits(n \div 128), 128 + (n % 128))
    BY <2>2, <2>3, <2>4
  <2> QED
    BY <2>5, <1>6
<1> QED
  BY <1>5, <1>6

\* The bytes of a number but the last.
HighOctet == 128..255

\* The digits before the last are bytes from 128 on.
LEMMA DigitsType ==
  ASSUME NEW n \in Nat
  PROVE  UpperDigits(n) \in Seq(HighOctet)
<1> DEFINE S == {k \in Nat : UpperDigits(k) \notin Seq(HighOctet)}
<1> SUFFICES ASSUME S # {} PROVE FALSE
  OBVIOUS
<1>1. PICK k \in S : \A j \in S : k <= j
  BY LeastMember
<1>2. k # 0
  <2>1. UpperDigits(0) = <<>>
    BY DigitsEquation
  <2>2. <<>> \in Seq(HighOctet)
    OBVIOUS
  <2>3. 0 \notin S
    BY <2>1, <2>2
  <2> QED
    BY <2>3, <1>1
<1>3. k \div 128 \in Nat /\ k \div 128 < k /\ 128 + (k % 128) \in HighOctet
  BY <1>1, <1>2 DEF HighOctet
<1>4. UpperDigits(k \div 128) \in Seq(HighOctet)
  BY <1>1, <1>3
<1>5. UpperDigits(k) = Append(UpperDigits(k \div 128), 128 + (k % 128))
  BY <1>1, <1>2, DigitsEquation
<1>6. UpperDigits(k) \in Seq(HighOctet)
  BY <1>3, <1>4, <1>5
<1> QED
  BY <1>1, <1>6

NothingRead == [ints |-> <<>>, cur |-> 0]
ReadFrom(g, data, n) == [i \in 0..n |-> IF i = 0 THEN NothingRead ELSE NextByte(g[i - 1], data[i])]

\* What has been read after each byte can be listed.
LEMMA ReadExists ==
  ASSUME NEW data, NEW n \in Nat
  PROVE  \E g : g = ReadFrom(g, data, n)
<1> DEFINE E(k) == \E g : g = ReadFrom(g, data, k)
           S == {k \in Nat : ~E(k)}
<1> SUFFICES ASSUME S # {} PROVE FALSE
  OBVIOUS
<1>1. PICK k \in S : \A j \in S : k <= j
  BY LeastMember
<1>2. E(0)
  <2> DEFINE g == [i \in 0..0 |-> NothingRead]
  <2>1. g = ReadFrom(g, data, 0)
    BY DEF ReadFrom
  <2> QED
    BY <2>1
<1>3. k # 0 /\ k - 1 \in Nat
  BY <1>1, <1>2
<1>4. PICK g : g = ReadFrom(g, data, k - 1)
  <2>1. k - 1 \notin S
    BY <1>1, <1>3
  <2> QED
    BY <2>1, <1>3
<1> DEFINE h == [i \in 0..k |-> IF i = k THEN NextByte(g[k - 1], data[k]) ELSE g[i]]
<1>5. ASSUME NEW i \in 0..k
      PROVE  h[i] = IF i = 0 THEN NothingRead ELSE NextByte(h[i - 1], data[i])
  <2>1. CASE i = k
    BY <2>1, <1>3
  <2>2. CASE i # k
    <3>1. i \in 0..(k - 1) /\ h[i] = g[i]
      BY <2>2, <1>3
    <3>2. g[i] = IF i = 0 THEN NothingRead ELSE NextByte(g[i - 1], data[i])
      BY <3>1, <1>4 DEF ReadFrom
    <3>3. i # 0 => h[i - 1] = g[i - 1]
      BY <3>1, <1>3
    <3> QED
      BY <3>1, <3>2, <3>3
  <2> QED
    BY <2>1, <2>2
<1>6. h = ReadFrom(h, data, k)
  BY <1>5 DEF ReadFrom
<1> QED
  BY <1>1, <1>6

\* What has been read after each byte.
ReadState(data) == CHOOSE g : g = ReadFrom(g, data, Len(data))

LEMMA ReadSteps ==
  ASSUME NEW data \in Seq(Octet)
  PROVE  LET read == ReadState(data)
         IN  /\ read[0] = NothingRead
             /\ \A i \in 1..Len(data) : read[i] = NextByte(read[i - 1], data[i])
             /\ DecodePointer(data) = IF Len(read[Len(data)].ints) # 3 THEN Undecodable
                                      ELSE Ok([kind |-> "pointer", numbers |-> read[Len(data)].ints])
<1> DEFINE read == ReadState(data)
           n == Len(data)
<1>1. n \in Nat
  OBVIOUS
<1>2. read = ReadFrom(read, data, n)
  BY <1>1, ReadExists DEF ReadState
<1>3. read[0] = NothingRead /\ \A i \in 1..n : read[i] = NextByte(read[i - 1], data[i])
  <2> HIDE DEF read, n
  <2> QED
    BY <1>1, <1>2 DEF ReadFrom
<1>4. DecodePointer(data) = IF Len(read[n].ints) # 3 THEN Undecodable
                            ELSE Ok([kind |-> "pointer", numbers |-> read[n].ints])
  BY DEF DecodePointer, ReadState, ReadFrom, NothingRead
<1> QED
  BY <1>3, <1>4

\* Numbers and what has been read of the next one.
LEMMA ReadType ==
  ASSUME NEW data \in Seq(Octet), NEW i \in 0..Len(data)
  PROVE  ReadState(data)[i] \in [ints : Seq(Nat), cur : Nat]
<1> DEFINE read == ReadState(data)
           S == {k \in 0..Len(data) : read[k] \notin [ints : Seq(Nat), cur : Nat]}
<1> SUFFICES ASSUME S # {} PROVE FALSE
  OBVIOUS
<1>1. S \in SUBSET Nat
  OBVIOUS
<1>2. PICK k \in S : \A j \in S : k <= j
  BY <1>1, LeastMember
<1>3. k # 0
  <2>1. NothingRead \in [ints : Seq(Nat), cur : Nat]
    BY DEF NothingRead
  <2> QED
    BY <2>1, <1>2, ReadSteps
<1>4. k \in 1..Len(data) /\ k - 1 \in 0..Len(data) /\ k - 1 < k
  BY <1>2, <1>3
<1>5. read[k - 1] \in [ints : Seq(Nat), cur : Nat]
  BY <1>2, <1>4
<1>6. read[k] = NextByte(read[k - 1], data[k])
  BY <1>4, ReadSteps
<1>7. data[k] \in 0..255
  BY <1>4, OctetsOf
<1>8. read[k] \in [ints : Seq(Nat), cur : Nat]
  <2> DEFINE s == read[k - 1]
             b == data[k]
  <2>1. s.ints \in Seq(Nat) /\ s.cur \in Nat /\ b \in 0..255
    BY <1>5, <1>7
  <2> HIDE DEF s, b
  <2>2. NextByte(s, b) \in [ints : Seq(Nat), cur : Nat]
    BY <2>1 DEF NextByte
  <2> QED
    BY <2>2, <1>6 DEF s, b
<1> QED
  BY <1>2, <1>8

\* A sequence stands in the data behind a place.
StandsAt(data, i, s) == i + Len(s) <= Len(data) /\ \A k \in 1..Len(s) : data[i + k] = s[k]

\* A number and its last digit.
LEMMA LowDigit ==
  ASSUME NEW m \in Nat
  PROVE  /\ 128 + (m % 128) \in 128..255 /\ (128 + (m % 128)) % 128 = m % 128
         /\ 128 * (m \div 128) + (m % 128) = m
         /\ m # 0 => m \div 128 \in Nat /\ m \div 128 < m
OBVIOUS

\* Reading all digits but the last of a number.
LEMMA ReadDigits ==
  ASSUME NEW data \in Seq(Octet), NEW i \in 0..Len(data), ReadState(data)[i].cur = 0,
         NEW n \in Nat, StandsAt(data, i, UpperDigits(n))
  PROVE  ReadState(data)[i + Len(UpperDigits(n))] = [ints |-> ReadState(data)[i].ints, cur |-> 128 * n]
<1> DEFINE read == ReadState(data)
           Done(m) == StandsAt(data, i, UpperDigits(m)) =>
                        read[i + Len(UpperDigits(m))] = [ints |-> read[i].ints, cur |-> 128 * m]
           S == {m \in Nat : ~Done(m)}
<1> SUFFICES ASSUME S # {} PROVE FALSE
  OBVIOUS
<1>1. PICK m \in S : \A j \in S : m <= j
  BY LeastMember
<1>2. read[i] \in [ints : Seq(Nat), cur : Nat]
  BY ReadType
<1>3. Done(0)
  <2>1. UpperDigits(0) = <<>>
    BY DigitsEquation
  <2>2. Len(UpperDigits(0)) = 0 /\ i + 0 = i /\ 128 * 0 = 0
    BY <2>1
  <2>3. read[i] = [ints |-> read[i].ints, cur |-> 0]
    BY <1>2
  <2> HIDE DEF read
  <2> QED
    BY <2>2, <2>3
<1>4. m \in Nat /\ m # 0 /\ m \div 128 \in Nat /\ m \div 128 < m
  BY <1>1, <1>3
<1> DEFINE upper == UpperDigits(m \div 128)
           b == 128 + (m % 128)
           p == i + Len(upper)
<1>5. UpperDigits(m) = Append(upper, b) /\ upper \in Seq(HighOctet)
  <2>1. UpperDigits(m) = IF m = 0 THEN <<>> ELSE Append(upper, b)
    BY <1>4, DigitsEquation
  <2>2. upper \in Seq(HighOctet)
    BY <1>4, DigitsType
  <2> HIDE DEF upper, b
  <2> QED
    BY <1>4, <2>1, <2>2
<1>6. StandsAt(data, i, UpperDigits(m)) /\ read[i + Len(UpperDigits(m))] # [ints |-> read[i].ints, cur |-> 128 * m]
  BY <1>1
<1>7. Len(upper) \in Nat /\ Len(UpperDigits(m)) = Len(upper) + 1
      /\ (\A k \in 1..Len(upper) : UpperDigits(m)[k] = upper[k]) /\ UpperDigits(m)[Len(upper) + 1] = b
  <2> HIDE DEF upper, b
  <2> QED
    BY <1>5
<1>8. StandsAt(data, i, upper) /\ p + 1 \in 1..Len(data) /\ data[p + 1] = b
  <2> HIDE DEF upper, b
  <2>1. i + (Len(upper) + 1) <= Len(data) /\ \A k \in 1..(Len(upper) + 1) : data[i + k] = UpperDigits(m)[k]
    BY <1>6, <1>7 DEF StandsAt
  <2>2. StandsAt(data, i, upper)
    BY <2>1, <1>7 DEF StandsAt
  <2>3. p + 1 \in 1..Len(data) /\ p + 1 = i + (Len(upper) + 1)
    BY <2>1, <1>7
  <2>4. data[i + (Len(upper) + 1)] = b
    BY <2>1, <1>7
  <2> QED
    BY <2>2, <2>3, <2>4
<1>9. read[p] = [ints |-> read[i].ints, cur |-> 128 * (m \div 128)]
  <2>1. m \div 128 \notin S
    BY <1>1, <1>4
  <2> HIDE DEF read
  <2> QED
    BY <2>1, <1>4, <1>8
<1>10. read[p + 1] = NextByte(read[p], b)
  <2>1. read[p + 1] = NextByte(read[p + 1 - 1], data[p + 1])
    <3>1. \A j \in 1..Len(data) : read[j] = NextByte(read[j - 1], data[j])
      BY ReadSteps
    <3> DEFINE q == p + 1
    <3>2. q \in 1..Len(data)
      BY <1>8
    <3>3. read[q] = NextByte(read[q - 1], data[q])
      <4> HIDE DEF read, q
      <4> QED
        BY <3>1, <3>2
    <3> QED
      BY <3>3
  <2>2. p + 1 - 1 = p
    BY <1>7
  <2> QED
    BY <2>1, <2>2, <1>8
<1>11. NextByte(read[p], b) = [ints |-> read[i].ints, cur |-> 128 * m]
  <2>1. b \in 128..255 /\ b % 128 = m % 128 /\ 128 * (m \div 128) + (m % 128) = m
    BY <1>4, LowDigit
  <2>2. m * 128 = 128 * m
    BY <1>4
  <2> HIDE DEF read, b, p
  <2>3. read[p].cur + (b % 128) = m /\ read[p].ints = read[i].ints /\ ~(b < 128)
    BY <1>9, <2>1
  <2> QED
    BY <2>2, <2>3 DEF NextByte
<1>12. i + Len(UpperDigits(m)) = p + 1
  BY <1>7
<1> QED
  BY <1>6, <1>10, <1>11, <1>12

\* Reading a number.
LEMMA ReadNumber ==
  ASSUME NEW data \in Seq(Octet), NEW i \in 0..Len(data), ReadState(data)[i].cur = 0,
         NEW n \in Nat, StandsAt(data, i, EncodeInt(n))
  PROVE  ReadState(data)[i + Len(EncodeInt(n))] = [ints |-> Append(ReadState(data)[i].ints, n), cur |-> 0]
<1> DEFINE read == ReadState(data)
           upper == UpperDigits(n \div 128)
           b == n % 128
           p == i + Len(upper)
<1>1. n \div 128 \in Nat /\ b \in 0..127 /\ 128 * (n \div 128) + b = n /\ b % 128 = b
  OBVIOUS
<1>2. EncodeInt(n) = Append(upper, b) /\ upper \in Seq(HighOctet)
  BY <1>1, DigitsType DEF EncodeInt
<1>3. Len(upper) \in Nat /\ Len(EncodeInt(n)) = Len(upper) + 1
      /\ (\A k \in 1..Len(upper) : EncodeInt(n)[k] = upper[k]) /\ EncodeInt(n)[Len(upper) + 1] = b
  <2> HIDE DEF upper, b
  <2> QED
    BY <1>2
<1>4. StandsAt(data, i, upper) /\ p + 1 \in 1..Len(data) /\ data[p + 1] = b
  <2> HIDE DEF upper, b
  <2>1. i + (Len(upper) + 1) <= Len(data) /\ \A k \in 1..(Len(upper) + 1) : data[i + k] = EncodeInt(n)[k]
    BY <1>3 DEF StandsAt
  <2>2. StandsAt(data, i, upper)
    BY <2>1, <1>3 DEF StandsAt
  <2>3. p + 1 \in 1..Len(data) /\ p + 1 = i + (Len(upper) + 1)
    BY <2>1, <1>3
  <2>4. data[i + (Len(upper) + 1)] = b
    BY <2>1, <1>3
  <2> QED
    BY <2>2, <2>3, <2>4
<1>5. read[p] = [ints |-> read[i].ints, cur |-> 128 * (n \div 128)]
  BY <1>1, <1>4, ReadDigits
<1>6. read[p + 1] = NextByte(read[p], b)
  <2>1. read[p + 1] = NextByte(read[p + 1 - 1], data[p + 1])
    <3>1. \A j \in 1..Len(data) : read[j] = NextByte(read[j - 1], data[j])
      BY ReadSteps
    <3> DEFINE q == p + 1
    <3>2. q \in 1..Len(data)
      BY <1>4
    <3>3. read[q] = NextByte(read[q - 1], data[q])
      <4> HIDE DEF read, q
      <4> QED
        BY <3>1, <3>2
    <3> QED
      BY <3>3
  <2>2. p + 1 - 1 = p
    BY <1>3
  <2> QED
    BY <2>1, <2>2, <1>4
<1>7. NextByte(read[p], b) = [ints |-> Append(read[i].ints, n), cur |-> 0]
  <2> HIDE DEF read, b, p
  <2>1. read[p].cur + (b % 128) = n /\ read[p].ints = read[i].ints /\ b < 128
    BY <1>1, <1>5
  <2> QED
    BY <2>1 DEF NextByte
<1>8. i + Len(EncodeInt(n)) = p + 1
  BY <1>3
<1> QED
  BY <1>6, <1>7, <1>8

LEMMA EncodeIntType ==
  ASSUME NEW n \in Nat
  PROVE  EncodeInt(n) \in Seq(Octet) /\ Len(EncodeInt(n)) >= 1
<1> DEFINE upper == UpperDigits(n \div 128)
<1>1. n \div 128 \in Nat /\ n % 128 \in Octet
  BY DEF Octet
<1>2. upper \in Seq(HighOctet)
  BY <1>1, DigitsType
<1>3. \A k \in 1..Len(upper) : upper[k] \in Octet
  <2>1. \A k \in 1..Len(upper) : upper[k] \in HighOctet
    <3> HIDE DEF upper
    <3> QED
      BY <1>2
  <2>2. \A x \in HighOctet : x \in Octet
    BY DEF HighOctet, Octet
  <2> QED
    BY <2>1, <2>2
<1>4. upper \in Seq(Octet)
  <2> HIDE DEF upper
  <2> QED
    BY <1>2, <1>3
<1>5. EncodeInt(n) = Append(upper, n % 128)
  BY DEF EncodeInt
<1> HIDE DEF upper
<1> QED
  BY <1>1, <1>4, <1>5

\* A pointer is read back from its bytes, whatever its numbers.
LEMMA PointerReadBack ==
  ASSUME NEW p \in Nat \X Nat \X Nat
  PROVE  /\ EncodePointer(p) \in Seq(Octet) /\ Len(EncodePointer(p)) >= 3
         /\ DecodePointer(EncodePointer(p)) = Ok([kind |-> "pointer", numbers |-> p])
<1> DEFINE a == EncodeInt(p[1])
           b == EncodeInt(p[2])
           c == EncodeInt(p[3])
           data == a \o b \o c
           read == ReadState(data)
<1>1. p[1] \in Nat /\ p[2] \in Nat /\ p[3] \in Nat /\ p = <<p[1], p[2], p[3]>>
  OBVIOUS
<1>2. /\ a \in Seq(Octet) /\ Len(a) \in Nat /\ Len(a) >= 1
      /\ b \in Seq(Octet) /\ Len(b) \in Nat /\ Len(b) >= 1
      /\ c \in Seq(Octet) /\ Len(c) \in Nat /\ Len(c) >= 1
  <2>1. a \in Seq(Octet) /\ Len(a) >= 1
    BY <1>1, EncodeIntType
  <2>2. b \in Seq(Octet) /\ Len(b) >= 1
    BY <1>1, EncodeIntType
  <2>3. c \in Seq(Octet) /\ Len(c) >= 1
    BY <1>1, EncodeIntType
  <2> HIDE DEF a, b, c
  <2> QED
    BY <2>1, <2>2, <2>3
<1>3. EncodePointer(p) = data
  BY DEF EncodePointer
<1>4. data \in Seq(Octet) /\ Len(data) = Len(a) + Len(b) + Len(c)
  <2> HIDE DEF a, b, c
  <2> QED
    BY <1>2
<1>5. StandsAt(data, 0, a) /\ StandsAt(data, Len(a), b) /\ StandsAt(data, Len(a) + Len(b), c)
  <2> HIDE DEF a, b, c
  <2>1. \A k \in 1..Len(a) : data[0 + k] = a[k]
    BY <1>2
  <2>2. \A k \in 1..Len(b) : data[Len(a) + k] = b[k]
    BY <1>2
  <2>3. \A k \in 1..Len(c) : data[Len(a) + Len(b) + k] = c[k]
    BY <1>2
  <2> HIDE DEF data
  <2> QED
    BY <1>2, <1>4, <2>1, <2>2, <2>3 DEF StandsAt
<1> DEFINE i1 == Len(a)
           i2 == i1 + Len(b)
           i3 == i2 + Len(c)
<1>6. 0 \in 0..Len(data) /\ i1 \in 0..Len(data) /\ i2 \in 0..Len(data) /\ i3 = Len(data) /\ 0 + Len(a) = i1
  <2> HIDE DEF a, b, c, data
  <2> QED
    BY <1>2, <1>4
<1>7. read[0].cur = 0 /\ read[0].ints = <<>>
  <2> HIDE DEF data
  <2>1. read[0] = NothingRead
    BY <1>4, ReadSteps
  <2> HIDE DEF read
  <2> QED
    BY <2>1 DEF NothingRead
<1> HIDE DEF read, data
<1>8. read[i1] = [ints |-> Append(<<>>, p[1]), cur |-> 0]
  <2>1. read[0 + Len(EncodeInt(p[1]))] = [ints |-> Append(read[0].ints, p[1]), cur |-> 0]
    BY <1>1, <1>4, <1>5, <1>6, <1>7, ReadNumber DEF read
  <2> QED
    BY <2>1, <1>6, <1>7
<1>9. read[i2] = [ints |-> Append(Append(<<>>, p[1]), p[2]), cur |-> 0]
  <2>1. read[i1].cur = 0 /\ read[i1].ints = Append(<<>>, p[1])
    BY <1>8
  <2>2. read[i1 + Len(EncodeInt(p[2]))] = [ints |-> Append(read[i1].ints, p[2]), cur |-> 0]
    BY <1>1, <1>4, <1>5, <1>6, <2>1, ReadNumber DEF read
  <2> QED
    BY <2>1, <2>2
<1>10. read[i3] = [ints |-> Append(Append(Append(<<>>, p[1]), p[2]), p[3]), cur |-> 0]
  <2>1. read[i2].cur = 0 /\ read[i2].ints = Append(Append(<<>>, p[1]), p[2])
    BY <1>9
  <2>2. read[i2 + Len(EncodeInt(p[3]))] = [ints |-> Append(read[i2].ints, p[3]), cur |-> 0]
    BY <1>1, <1>4, <1>5, <1>6, <2>1, ReadNumber DEF read
  <2> QED
    BY <2>1, <2>2
<1>11. Append(Append(Append(<<>>, p[1]), p[2]), p[3]) = p
  BY <1>1
<1>12. read[Len(data)].ints = p /\ Len(p) = 3
  BY <1>1, <1>6, <1>10, <1>11
<1>13. DecodePointer(data) = Ok([kind |-> "pointer", numbers |-> p])
  BY <1>4, <1>12, ReadSteps DEF read
<1>14. Len(data) >= 3
  <2> HIDE DEF a, b, c
  <2> QED
    BY <1>2, <1>4
<1> QED
  BY <1>3, <1>4, <1>13, <1>14

\* No number begins with zeros, and the last one ends.
Unpadded(data) ==
  /\ \A i \in 1..Len(data) : data[i] = 128 => i # 1 /\ data[i - 1] >= 128
  /\ data[Len(data)] < 128

\* The bytes of at most three numbers.
Joined(s) ==
  IF Len(s) = 0 THEN <<>> ELSE IF Len(s) = 1 THEN EncodeInt(s[1])
  ELSE IF Len(s) = 2 THEN EncodeInt(s[1]) \o EncodeInt(s[2])
  ELSE EncodeInt(s[1]) \o EncodeInt(s[2]) \o EncodeInt(s[3])

LEMMA JoinedType ==
  ASSUME NEW s \in Seq(Nat), Len(s) <= 3
  PROVE  Joined(s) \in Seq(Octet)
<1>1. Len(s) \in 0..3 /\ \A i \in 1..Len(s) : EncodeInt(s[i]) \in Seq(Octet)
  <2>1. Len(s) \in Nat /\ \A i \in 1..Len(s) : s[i] \in Nat
    BY MembersOf
  <2>2. \A i \in 1..Len(s) : EncodeInt(s[i]) \in Seq(Octet)
    BY <2>1, EncodeIntType
  <2>3. Len(s) \in 0..3
    <3> DEFINE l == Len(s)
    <3>1. l \in Nat /\ l <= 3
      BY <2>1
    <3> HIDE DEF l
    <3>2. l \in 0..3
      BY <3>1
    <3> QED BY <3>2 DEF l
  <2> QED
    BY <2>2, <2>3
<1>2. CASE Len(s) = 0
  BY <1>2 DEF Joined
<1>3. CASE Len(s) = 1
  BY <1>1, <1>3 DEF Joined
<1>4. CASE Len(s) = 2
  <2>1. EncodeInt(s[1]) \in Seq(Octet) /\ EncodeInt(s[2]) \in Seq(Octet)
    BY <1>1, <1>4
  <2> QED
    BY <2>1, <1>4 DEF Joined
<1>5. CASE Len(s) = 3
  <2>1. EncodeInt(s[1]) \in Seq(Octet) /\ EncodeInt(s[2]) \in Seq(Octet) /\ EncodeInt(s[3]) \in Seq(Octet)
    BY <1>1, <1>5
  <2> QED
    BY <2>1, <1>5 DEF Joined
<1> QED
  BY <1>1, <1>2, <1>3, <1>4, <1>5

\* One more number.
LEMMA JoinedAppend ==
  ASSUME NEW s \in Seq(Nat), Len(s) <= 2, NEW n \in Nat
  PROVE  Joined(Append(s, n)) = Joined(s) \o EncodeInt(n)
<1> DEFINE t == Append(s, n)
<1>1. Len(s) \in 0..2 /\ Len(t) = Len(s) + 1 /\ t[Len(s) + 1] = n /\ \A i \in 1..Len(s) : t[i] = s[i]
  <2>1. Len(s) \in Nat
    BY MembersOf
  <2>2. Len(t) = Len(s) + 1 /\ t[Len(s) + 1] = n /\ \A i \in 1..Len(s) : t[i] = s[i]
    BY AppendIs
  <2>3. Len(s) \in 0..2
    <3> DEFINE l == Len(s)
    <3>1. l \in Nat /\ l <= 2
      BY <2>1
    <3> HIDE DEF l
    <3>2. l \in 0..2
      BY <3>1
    <3> QED BY <3>2 DEF l
  <2> QED
    BY <2>2, <2>3
<1>2. EncodeInt(n) \in Seq(Octet) /\ Joined(s) \in Seq(Octet)
  <2>1. Len(s) <= 3
    BY <1>1
  <2>2. Joined(s) \in Seq(Octet)
    BY <2>1, JoinedType
  <2>3. EncodeInt(n) \in Seq(Octet)
    BY EncodeIntType
  <2> QED
    BY <2>2, <2>3
<1> HIDE DEF t
<1>3. CASE Len(s) = 0
  <2>1. Joined(t) = EncodeInt(n) /\ Joined(s) = <<>>
    BY <1>1, <1>3 DEF Joined
  <2> QED
    BY <2>1, <1>2 DEF t
<1>4. CASE Len(s) = 1
  <2>1. Joined(t) = EncodeInt(s[1]) \o EncodeInt(n) /\ Joined(s) = EncodeInt(s[1])
    BY <1>1, <1>4 DEF Joined
  <2> QED
    BY <2>1 DEF t
<1>5. CASE Len(s) = 2
  <2>1. Joined(t) = EncodeInt(s[1]) \o EncodeInt(s[2]) \o EncodeInt(n)
        /\ Joined(s) = EncodeInt(s[1]) \o EncodeInt(s[2])
    BY <1>1, <1>5 DEF Joined
  <2> QED
    BY <2>1 DEF t
<1> QED
  BY <1>1, <1>3, <1>4, <1>5

\* What has been read up to a place is what stands before it.
ReadSoFar(data, i) ==
  LET s == ReadState(data)[i] IN
  /\ s.cur % 128 = 0
  /\ s.cur = 0 => i = 0 \/ data[i] < 128
  /\ i # 0 /\ data[i] < 128 => s.cur = 0
  /\ [j \in 1..i |-> data[j]] = Joined(s.ints) \o UpperDigits(s.cur \div 128)

LEMMA UnpaddedRead ==
  ASSUME NEW data \in Seq(Octet), Unpadded(data), NEW n \in 0..Len(data), Len(ReadState(data)[n].ints) <= 3
  PROVE  ReadSoFar(data, n)
<1> DEFINE read == ReadState(data)
           Good(i) == Len(read[i].ints) <= 3 => ReadSoFar(data, i)
           S == {i \in 0..Len(data) : ~Good(i)}
<1> SUFFICES ASSUME S # {} PROVE FALSE
  OBVIOUS
<1>1. S \in SUBSET Nat
  OBVIOUS
<1>2. PICK i \in S : \A j \in S : i <= j
  BY <1>1, LeastMember
<1>3. Good(0)
  <2>1. read[0] = NothingRead
    BY ReadSteps
  <2>2. read[0].cur = 0 /\ read[0].ints = <<>> /\ 0 \div 128 = 0 /\ 0 % 128 = 0
    BY <2>1 DEF NothingRead
  <2>3. UpperDigits(0) = <<>> /\ Joined(<<>>) = <<>> /\ [j \in 1..0 |-> data[j]] = <<>> /\ <<>> \o <<>> = <<>>
    BY DigitsEquation DEF Joined
  <2> HIDE DEF read
  <2> QED
    BY <2>2, <2>3 DEF ReadSoFar, read
<1>4. i \in 1..Len(data) /\ i - 1 \in 0..Len(data) /\ Len(read[i].ints) <= 3 /\ ~ReadSoFar(data, i)
  BY <1>2, <1>3
<1> DEFINE s == read[i - 1]
           b == data[i]
           cur == s.cur
           up == UpperDigits(cur \div 128)
           before == [j \in 1..(i - 1) |-> data[j]]
<1>5. read[i] = NextByte(s, b)
  BY <1>4, ReadSteps
<1>6. s.ints \in Seq(Nat) /\ cur \in Nat /\ read[i].ints \in Seq(Nat)
  BY <1>4, ReadType
<1>7. b \in 0..255
  BY <1>4, OctetsOf
<1>8. read[i].ints = IF b < 128 THEN Append(s.ints, cur + (b % 128)) ELSE s.ints
  <2> HIDE DEF s, b
  <2> QED
    BY <1>5 DEF NextByte
<1>9. Len(s.ints) <= 3 /\ (b < 128 => Len(s.ints) <= 2)
  <2> HIDE DEF read, s, b, cur
  <2> QED
    BY <1>4, <1>6, <1>7, <1>8
<1>10. ReadSoFar(data, i - 1)
  BY <1>2, <1>4, <1>9
<1>11. /\ cur % 128 = 0 /\ (cur = 0 => i = 1 \/ data[i - 1] < 128)
       /\ before = Joined(s.ints) \o up
  <2> DEFINE k == i - 1
  <2>1. k = 0 <=> i = 1
    BY <1>4
  <2>2. cur % 128 = 0 /\ (cur = 0 => k = 0 \/ data[k] < 128)
        /\ [j \in 1..k |-> data[j]] = Joined(s.ints) \o UpperDigits(cur \div 128)
    BY <1>10 DEF ReadSoFar
  <2> QED
    BY <2>1, <2>2
<1>12. [j \in 1..i |-> data[j]] = Append(before, b)
  BY <1>4
<1>13. Joined(s.ints) \in Seq(Octet) /\ up \in Seq(HighOctet)
  <2>1. cur \div 128 \in Nat
    <3> HIDE DEF cur
    <3> QED BY <1>6
  <2> HIDE DEF cur, s
  <2> QED
    BY <1>6, <1>9, <2>1, JoinedType, DigitsType
<1>14. Append(before, b) = Joined(s.ints) \o Append(up, b)
  <2>1. up \in Seq(Octet) /\ b \in Octet
    <3>1. HighOctet \subseteq Octet
      BY DEF HighOctet, Octet
    <3>2. b \in Octet
      BY <1>7 DEF Octet
    <3> HIDE DEF up, b
    <3> QED
      BY <1>13, <3>1, <3>2
  <2> DEFINE joined == Joined(s.ints)
  <2>2. joined \in Seq(Octet)
    BY <1>13
  <2> HIDE DEF before, b, s, up, joined
  <2>3. Append(joined \o up, b) = joined \o Append(up, b)
    BY <2>1, <2>2, ConcatAppend
  <2> QED
    BY <1>11, <2>3 DEF joined
<1>15. CASE b < 128
  <2> DEFINE m == cur + (b % 128)
  <2>1. m \in Nat /\ m \div 128 = cur \div 128 /\ m % 128 = b
    <3>0. cur \in Nat
      BY <1>6
    <3> HIDE DEF cur, b
    <3>1. cur % 128 = 0
      BY <1>11
    <3>2. b \in 0..127 /\ b % 128 = b
      BY <1>7, <1>15
    <3> QED BY <3>0, <3>1, <3>2
  <2>2. EncodeInt(m) = Append(up, b)
    BY <2>1 DEF EncodeInt
  <2> HIDE DEF m
  <2>3. read[i] = [ints |-> Append(s.ints, m), cur |-> 0]
    <3> HIDE DEF s, b, read
    <3> QED BY <1>5, <1>15 DEF NextByte, m, cur
  <2>4. Joined(Append(s.ints, m)) = Joined(s.ints) \o EncodeInt(m)
    BY <1>6, <1>9, <1>15, <2>1, JoinedAppend
  <2>5. [j \in 1..i |-> data[j]] = Joined(Append(s.ints, m)) \o UpperDigits(0 \div 128)
    <3>1. UpperDigits(0) = <<>> /\ 0 \div 128 = 0
      BY DigitsEquation
    <3>2. Joined(Append(s.ints, m)) \in Seq(Octet)
      <4>1. Append(s.ints, m) \in Seq(Nat) /\ Len(Append(s.ints, m)) <= 3
        <5> HIDE DEF s
        <5> QED BY <1>6, <1>9, <1>15, <2>1
      <4> QED BY <4>1, JoinedType
    <3>3. Joined(Append(s.ints, m)) = Append(before, b)
      BY <1>14, <2>2, <2>4
    <3> DEFINE joined == Joined(Append(s.ints, m))
    <3>4. joined \o <<>> = joined
      <4> HIDE DEF joined
      <4> QED BY <3>2
    <3> HIDE DEF joined, before, b
    <3> QED
      BY <1>12, <3>1, <3>3, <3>4 DEF joined
  <2>6. ReadSoFar(data, i)
    <3> DEFINE t == read[i]
    <3>1. t.cur = 0 /\ t.ints = Append(s.ints, m)
      BY <2>3
    <3>2. [j \in 1..i |-> data[j]] = Joined(t.ints) \o UpperDigits(t.cur \div 128)
      <4> HIDE DEF t, s
      <4> QED BY <2>5, <3>1
    <3> HIDE DEF t
    <3>3. t.cur % 128 = 0
      BY <3>1
    <3> QED
      BY <1>15, <3>1, <3>2, <3>3 DEF ReadSoFar, t
  <2> QED
    BY <2>6, <1>4
<1>16. CASE b >= 128
  <2> DEFINE m == cur + (b % 128)
  <2>1. ~(i = 1 \/ data[i - 1] < 128) \/ b # 128
    <3>1. b = 128 => i # 1 /\ data[i - 1] >= 128
      BY <1>4 DEF Unpadded
    <3>2. i # 1 => data[i - 1] \in 0..255
      <4>1. i # 1 => i - 1 \in 1..Len(data)
        BY <1>4
      <4> QED BY <4>1, OctetsOf
    <3> DEFINE a == data[i - 1]
    <3> HIDE DEF a, b
    <3>3. ~(a < 128) \/ i = 1 \/ b # 128
      <4>1. a >= 128 /\ a \in 0..255 => ~(a < 128)
        OBVIOUS
      <4> QED
        BY <3>1, <3>2, <4>1 DEF a
    <3> QED
      BY <3>1, <3>3 DEF a
  <2>2. cur = 0 => b # 128
    BY <2>1, <1>11
  <2>3. m \in Nat /\ m # 0 /\ m \div 128 = cur \div 128 /\ 128 + (m % 128) = b
        /\ (m * 128) \div 128 = m /\ (m * 128) % 128 = 0 /\ m * 128 # 0
    <3>0. cur \in Nat
      BY <1>6
    <3> HIDE DEF cur, b
    <3>1. cur % 128 = 0 /\ (cur = 0 => b # 128)
      BY <1>11, <2>2
    <3>2. b \in 128..255 /\ b % 128 = b - 128
      BY <1>7, <1>16
    <3>3. m \in Nat /\ m # 0
      BY <3>0, <3>1, <3>2
    <3>4. m \div 128 = cur \div 128 /\ m % 128 = b - 128
      BY <3>0, <3>1, <3>2
    <3> HIDE DEF m
    <3>5. (m * 128) \div 128 = m /\ (m * 128) % 128 = 0 /\ m * 128 # 0
      BY <3>3
    <3>6. 128 + (m % 128) = b
      BY <3>2, <3>4
    <3> QED BY <3>3, <3>4, <3>5, <3>6
  <2>4. UpperDigits(m) = Append(up, b)
    <3>1. UpperDigits(m) = IF m = 0 THEN <<>> ELSE Append(UpperDigits(m \div 128), 128 + (m % 128))
      <4> HIDE DEF m
      <4> QED BY <2>3, DigitsEquation
    <3> HIDE DEF m, cur, b
    <3> QED BY <2>3, <3>1 DEF up
  <2> HIDE DEF m
  <2>5. read[i] = [ints |-> s.ints, cur |-> m * 128]
    <3> HIDE DEF s, b, read
    <3>1. ~(b < 128)
      BY <1>7, <1>16
    <3> QED BY <1>5, <3>1 DEF NextByte, m, cur
  <2>6. ReadSoFar(data, i)
    <3> DEFINE t == read[i]
    <3>1. t.cur = m * 128 /\ t.ints = s.ints
      BY <2>5
    <3>2. [j \in 1..i |-> data[j]] = Joined(t.ints) \o UpperDigits(t.cur \div 128)
      <4> HIDE DEF t, s, before, b, up
      <4> QED BY <2>3, <2>4, <1>12, <1>14, <3>1
    <3>3. t.cur % 128 = 0 /\ t.cur # 0 /\ ~(data[i] < 128)
      <4> HIDE DEF t
      <4> QED BY <2>3, <3>1, <1>7, <1>16
    <3> HIDE DEF t
    <3> QED
      BY <3>2, <3>3 DEF ReadSoFar, t
  <2> QED
    BY <2>6, <1>4
<1>17. b < 128 \/ b >= 128
  <2> HIDE DEF b
  <2> QED BY <1>7
<1> QED
  BY <1>15, <1>16, <1>17

\* What has failed and what has not.
LEMMA Outcomes ==
  /\ Failed(Raises) /\ Failed(Refused) /\ Failed(Undecodable)
  /\ \A v : ~Failed(Ok(v)) /\ Ok(v).ok = v
BY DEF Failed, Is, Raises, Refused, Undecodable, Ok

\* What is read as a pointer has three numbers, and unless it is padded these are
\* written again to the same bytes.
LEMMA PointerRead ==
  ASSUME NEW data \in Seq(Octet), ~Failed(DecodePointer(data))
  PROVE  \E p \in Nat \X Nat \X Nat :
           /\ DecodePointer(data) = Ok([kind |-> "pointer", numbers |-> p])
           /\ Unpadded(data) => EncodePointer(p) = data
<1> DEFINE last == ReadState(data)[Len(data)]
           p == last.ints
<1>1. DecodePointer(data) = Ok([kind |-> "pointer", numbers |-> p]) /\ Len(p) = 3
  BY ReadSteps, Outcomes
<1>2. last \in [ints : Seq(Nat), cur : Nat]
  BY ReadType
<1>3. p \in Nat \X Nat \X Nat
  <2>1. p \in Seq(Nat)
    BY <1>2
  <2> HIDE DEF p
  <2> QED
    BY <2>1, <1>1, TripleOf
<1>4. ASSUME Unpadded(data)
      PROVE  EncodePointer(p) = data
  <2>1. ReadSoFar(data, Len(data))
    <3> DEFINE n == Len(data)
    <3>1. n \in 0..n
      OBVIOUS
    <3>2. Len(ReadState(data)[n].ints) <= 3
      BY <1>1
    <3> HIDE DEF n
    <3>3. n = Len(data)
      BY DEF n
    <3>4. ReadSoFar(data, n)
      BY <1>4, <3>1, <3>2, <3>3, UnpaddedRead
    <3> QED
      BY <3>4 DEF n
  <2>2. Len(data) # 0
    <3>0. ReadState(data)[0] = NothingRead
      BY ReadSteps
    <3>1. ReadState(data)[0].ints = <<>>
      BY <3>0 DEF NothingRead
    <3>2. Len(data) = 0 => Len(p) = 0
      BY <3>1
    <3> HIDE DEF p
    <3> QED
      BY <1>1, <3>2
  <2>3. last.cur = 0 /\ [j \in 1..Len(data) |-> data[j]] = Joined(p) \o UpperDigits(last.cur \div 128)
    BY <1>4, <2>1, <2>2 DEF ReadSoFar, Unpadded
  <2>4. UpperDigits(0) = <<>> /\ 0 \div 128 = 0
    BY DigitsEquation
  <2>5. Joined(p) = EncodePointer(p)
    <3> HIDE DEF p
    <3> QED BY <1>1 DEF Joined, EncodePointer
  <2>6. EncodePointer(p) \in Seq(Octet)
    BY <1>3, PointerReadBack
  <2>7. [j \in 1..Len(data) |-> data[j]] = data
    OBVIOUS
  <2>8. EncodePointer(p) \o <<>> = EncodePointer(p)
    <3> HIDE DEF p
    <3> QED BY <2>6
  <2> HIDE DEF last, p
  <2> QED
    BY <2>3, <2>4, <2>5, <2>7, <2>8
<1> QED
  BY <1>1, <1>3, <1>4

-----------------------------------------------------------------------------
(* Texts *)

\* A text with a prefix that is read as these bytes.
IsTextOf(t, hrp, bytes) ==
  /\ "form" \in DOMAIN t /\ t.form = "bech32" /\ t.hrp = hrp
  /\ BytesOfText(t) = bytes

TextSize(hrp, bytes) == HrpSize[hrp] + 7 + ((8 * Len(bytes) + 4) \div 5)

\* Bytes that were written as bech32 are found again, if they were written.
LEMMA TextReadBack ==
  ASSUME NEW hrp, HrpSize[hrp] \in Nat, NEW bytes \in Seq(Octet)
  PROVE  IF TextSize(hrp, bytes) <= MaxText THEN IsTextOf(Bech32(hrp, bytes), hrp, bytes)
         ELSE Bech32(hrp, bytes) = Nil
<1> DEFINE data == ConvertBits(bytes, 8, 5, TRUE)
           t == [form |-> "bech32", hrp |-> hrp, data |-> data]
           size == (8 * Len(bytes) + 4) \div 5
<1>1. size \in Nat /\ Len(data) = size /\ ConvertBits(data, 5, 8, FALSE) = bytes
  <2> DEFINE n == Len(bytes)
  <2>1. n \in Nat
    BY OctetsOf
  <2>2. (8 * n + 4) \div 5 \in Nat
    <3> HIDE DEF n
    <3> QED BY <2>1
  <2> QED
    BY <2>2, GroupsReadBack
<1>2. Bech32(hrp, bytes) = IF IsBech32(t) THEN t ELSE Nil
  BY DEF Bech32
<1>3. t.form = "bech32" /\ t.hrp = hrp /\ t.data = data /\ "form" \in DOMAIN t
  <2> HIDE DEF data
  <2> QED OBVIOUS
<1> HIDE DEF t, data
<1>4. IsBech32(t) <=> ~(HrpSize[hrp] + 1 + size + 6 > MaxText)
  BY <1>1, <1>3 DEF IsBech32, TooLongText
<1>5. IsBech32(t) => BytesOfText(t) = bytes
  BY <1>1, <1>3 DEF BytesOfText
<1> DEFINE h == HrpSize[hrp]
<1>6. ~(h + 1 + size + 6 > MaxText) <=> TextSize(hrp, bytes) <= MaxText
  <2>1. h \in Nat /\ TextSize(hrp, bytes) = h + 7 + size
    BY DEF TextSize
  <2> HIDE DEF h, size
  <2> QED BY <1>1, <2>1 DEF MaxText
<1> QED
  BY <1>2, <1>3, <1>4, <1>5, <1>6 DEF IsTextOf

-----------------------------------------------------------------------------
(* The parts of an address *)

IsHashPart(p) ==
  p.kind \in {"key", "script"} /\ p = [kind |-> p.kind, hash |-> p.hash] /\ IsHash(p.hash, HashSize)
IsPointerPart(p) ==
  p = [kind |-> "pointer", numbers |-> p.numbers] /\ p.numbers \in Nat \X Nat \X Nat
IsPart(p) == IsHashPart(p) \/ IsPointerPart(p) \/ p = NoPart

\* A part is found again in its bytes.
LEMMA PartReadBack ==
  ASSUME NEW p, IsPart(p)
  PROVE  /\ PartBytes(p) \in Seq(Octet) /\ Part(p.kind, PartBytes(p)) = Ok(p)
         /\ p.kind \in {"key", "script"} => Len(PartBytes(p)) = HashSize
         /\ p.kind = "pointer" => Len(PartBytes(p)) >= 3 /\ PartBytes(p) = EncodePointer(p.numbers)
         /\ p.kind = "nil" => Len(PartBytes(p)) = 0 /\ PartBytes(p) = <<>>
         /\ p.kind \in {"key", "script", "pointer", "nil"}
<1>1. CASE IsHashPart(p)
  <2>1. p.kind # "nil" /\ p.kind # "pointer" /\ p.kind \in {"key", "script"}
    BY <1>1 DEF IsHashPart
  <2>2. PartBytes(p) = p.hash /\ p.hash \in Seq(Octet) /\ Len(p.hash) = HashSize
    BY <1>1, <2>1 DEF IsHashPart, PartBytes, IsHash
  <2>3. Part(p.kind, p.hash) = Ok([kind |-> p.kind, hash |-> p.hash])
    BY <2>1, <2>2 DEF Part
  <2>4. p = [kind |-> p.kind, hash |-> p.hash]
    BY <1>1 DEF IsHashPart
  <2> QED
    BY <2>1, <2>2, <2>3, <2>4
<1>2. CASE IsPointerPart(p)
  <2>1. p.kind = "pointer" /\ p.numbers \in Nat \X Nat \X Nat /\ p = [kind |-> "pointer", numbers |-> p.numbers]
    BY <1>2 DEF IsPointerPart
  <2>2. PartBytes(p) = EncodePointer(p.numbers)
    BY <2>1 DEF PartBytes
  <2>3. /\ EncodePointer(p.numbers) \in Seq(Octet) /\ Len(EncodePointer(p.numbers)) >= 3
        /\ DecodePointer(EncodePointer(p.numbers)) = Ok([kind |-> "pointer", numbers |-> p.numbers])
    BY <2>1, PointerReadBack
  <2>4. Part("pointer", EncodePointer(p.numbers)) = Ok([kind |-> "pointer", numbers |-> p.numbers])
    BY <2>3 DEF Part
  <2> QED
    BY <2>1, <2>2, <2>3, <2>4
<1>3. CASE p = NoPart
  <2>1. p.kind = "nil"
    BY <1>3 DEF NoPart
  <2>2. PartBytes(p) = <<>> /\ Part("nil", <<>>) = Ok(NoPart)
    BY <2>1 DEF PartBytes, Part
  <2>3. <<>> \in Seq(Octet) /\ Len(<<>>) = 0
    OBVIOUS
  <2> QED
    BY <1>3, <2>1, <2>2, <2>3
<1> QED
  BY <1>1, <1>2, <1>3 DEF IsPart

PartKinds == {"key", "script", "pointer", "nil"}

\* What is read as a part is written again to the same bytes, unless it is a padded pointer.
LEMMA PartRead ==
  ASSUME NEW k \in PartKinds, NEW bytes \in Seq(Octet), ~Failed(Part(k, bytes))
  PROVE  /\ Part(k, bytes) = Ok(Part(k, bytes).ok)
         /\ IsPart(Part(k, bytes).ok) /\ Part(k, bytes).ok.kind = k
         /\ (k = "pointer" => Unpadded(bytes)) => PartBytes(Part(k, bytes).ok) = bytes
<1>1. CASE k = "pointer"
  <2>1. Part(k, bytes) = DecodePointer(bytes)
    BY <1>1 DEF Part
  <2>2. PICK p \in Nat \X Nat \X Nat : /\ DecodePointer(bytes) = Ok([kind |-> "pointer", numbers |-> p])
                                       /\ Unpadded(bytes) => EncodePointer(p) = bytes
    BY <2>1, PointerRead
  <2> DEFINE q == [kind |-> "pointer", numbers |-> p]
  <2>3. q.kind = "pointer" /\ q.numbers = p
    OBVIOUS
  <2>4. Part(k, bytes) = Ok(q) /\ Part(k, bytes).ok = q
    BY <2>1, <2>2, Outcomes
  <2>5. IsPart(q) /\ PartBytes(q) = EncodePointer(p)
    BY <2>3 DEF IsPart, IsPointerPart, PartBytes
  <2> HIDE DEF q
  <2> QED
    BY <1>1, <2>2, <2>3, <2>4, <2>5
<1>2. CASE k = "nil"
  <2>1. Part(k, bytes) = Ok(NoPart) /\ bytes = <<>>
    BY <1>2, Outcomes DEF Part
  <2>2. Part(k, bytes).ok = NoPart /\ IsPart(NoPart) /\ NoPart.kind = "nil"
    BY <2>1, Outcomes DEF NoPart, IsPart
  <2> QED
    BY <1>2, <2>1, <2>2 DEF PartBytes
<1>3. CASE k \in {"key", "script"}
  <2> DEFINE q == [kind |-> k, hash |-> bytes]
  <2>1. q.kind = k /\ q.hash = bytes
    OBVIOUS
  <2>2. Part(k, bytes) = Ok(q) /\ Len(bytes) = HashSize
    BY <1>3, Outcomes DEF Part
  <2>3. Part(k, bytes).ok = q
    BY <2>2, Outcomes
  <2>4. IsPart(q)
    BY <1>3, <2>1, <2>2 DEF IsPart, IsHashPart, IsHash
  <2>5. PartBytes(q) = bytes
    BY <1>3, <2>1 DEF PartBytes
  <2> HIDE DEF q
  <2> QED
    BY <1>3, <2>1, <2>2, <2>3, <2>4, <2>5
<1> QED
  BY <1>1, <1>2, <1>3 DEF PartKinds

\* The kinds of payment and staking part that an address may have.
AddressKinds(k, l) ==
  \/ k \in {"key", "script"} /\ l \in PartKinds
  \/ k = "nil" /\ l \in {"key", "script"}

ShelleyTypes == 0..7 \cup {14, 15}

\* The type of an address tells the kinds of its parts, and they tell the type.
LEMMA TypeOfKinds ==
  ASSUME NEW k, NEW l, AddressKinds(k, l)
  PROVE  /\ AddressType[k][l] \in ShelleyTypes
         /\ PaymentKind(AddressType[k][l]) = k /\ StakingKind(AddressType[k][l]) = l
BY DEF AddressKinds, PartKinds, AddressType, ShelleyTypes, PaymentKind, StakingKind

LEMMA KindsOfType ==
  ASSUME NEW n \in ShelleyTypes
  PROVE  /\ AddressKinds(PaymentKind(n), StakingKind(n))
         /\ AddressType[PaymentKind(n)][StakingKind(n)] = n
BY DEF AddressKinds, PartKinds, AddressType, ShelleyTypes, PaymentKind, StakingKind

-----------------------------------------------------------------------------
(* Slices of sequences *)

\* Two sequences that were joined are found again as slices.
LEMMA JoinedSlices ==
  ASSUME NEW T, NEW p \in Seq(T), NEW q \in Seq(T)
  PROVE  /\ p \o q \in Seq(T) /\ Len(p \o q) = Len(p) + Len(q)
         /\ SubSeq(p \o q, 1, Len(p)) = p /\ SubSeq(p \o q, Len(p) + 1, Len(p \o q)) = q
OBVIOUS

\* The two slices of a sequence make it up.
LEMMA SlicesJoined ==
  ASSUME NEW T, NEW s \in Seq(T), NEW k \in 0..Len(s)
  PROVE  /\ SubSeq(s, 1, k) \in Seq(T) /\ SubSeq(s, k + 1, Len(s)) \in Seq(T)
         /\ Len(SubSeq(s, 1, k)) = k /\ Len(SubSeq(s, k + 1, Len(s))) = Len(s) - k
         /\ SubSeq(s, 1, k) \o SubSeq(s, k + 1, Len(s)) = s
         /\ \A i \in 1..(Len(s) - k) : SubSeq(s, k + 1, Len(s))[i] = s[k + i]
<1> DEFINE n == Len(s)
           p == SubSeq(s, 1, k)
           q == SubSeq(s, k + 1, n)
<1>1. n \in Nat /\ k \in Nat /\ k <= n
  OBVIOUS
<1>2. \A i \in 1..n : s[i] \in T
  OBVIOUS
<1>3. p = [i \in 1..k |-> s[i]]
  OBVIOUS
<1>4. q = [i \in 1..(n - k) |-> s[k + i]]
  OBVIOUS
<1>5. s = [i \in 1..n |-> s[i]]
  OBVIOUS
<1> HIDE DEF n
<1>6. p \in Seq(T) /\ Len(p) = k
  BY <1>1, <1>2, <1>3
<1>7. q \in Seq(T) /\ Len(q) = n - k
  <2>1. n - k \in Nat
    BY <1>1
  <2>2. \A i \in 1..(n - k) : s[k + i] \in T
    BY <1>1, <1>2
  <2> DEFINE m == n - k
             member(i) == s[k + i]
  <2>3. m \in Nat /\ (\A i \in 1..m : member(i) \in T) /\ q = [i \in 1..m |-> member(i)]
    BY <1>4, <2>1, <2>2
  <2> HIDE DEF q, m, member
  <2>4. q \in Seq(T) /\ Len(q) = m
    BY <2>3
  <2> QED
    BY <2>4 DEF m
<1>8. \A i \in 1..(n - k) : q[i] = s[k + i]
  BY <1>4
<1>9. p \o q = s
  <2> HIDE DEF p, q
  <2>1. Len(p \o q) = n /\ p \o q \in Seq(T)
    BY <1>1, <1>6, <1>7
  <2>2. ASSUME NEW i \in 1..n
        PROVE  (p \o q)[i] = s[i]
    <3>1. CASE i <= k
      BY <3>1, <1>1, <1>3, <1>6, <1>7
    <3>2. CASE ~(i <= k)
      <4>1. (p \o q)[i] = q[i - k]
        BY <3>2, <1>1, <1>6, <1>7
      <4>2. i - k \in 1..(n - k) /\ k + (i - k) = i
        BY <3>2, <1>1
      <4> QED
        BY <4>1, <4>2, <1>8
    <3> QED BY <3>1, <3>2
  <2>3. p \o q = [i \in 1..n |-> (p \o q)[i]]
    <3> DEFINE r == p \o q
    <3> HIDE DEF r
    <3>1. r \in Seq(T) /\ Len(r) = n
      BY <2>1 DEF r
    <3>2. r = [i \in 1..n |-> r[i]]
      BY <3>1
    <3> QED
      BY <3>2 DEF r
  <2> QED
    BY <2>2, <2>3, <1>5
<1> QED
  BY <1>6, <1>7, <1>8, <1>9 DEF n

\* A sequence with a member before it.
LEMMA Headed ==
  ASSUME NEW T, NEW s \in Seq(T), NEW x \in T
  PROVE  /\ <<x>> \o s \in Seq(T) /\ <<x>> \o s # <<>> /\ Len(<<x>> \o s) = 1 + Len(s)
         /\ (<<x>> \o s)[1] = x /\ Tail(<<x>> \o s) = s
OBVIOUS

LEMMA HeadAndTail ==
  ASSUME NEW T, NEW s \in Seq(T), s # <<>>
  PROVE  /\ s[1] \in T /\ Tail(s) \in Seq(T) /\ Len(Tail(s)) = Len(s) - 1 /\ s = <<s[1]>> \o Tail(s)
         /\ \A i \in 1..(Len(s) - 1) : Tail(s)[i] = s[i + 1]
OBVIOUS

LEMMA JoinedTwice ==
  ASSUME NEW T, NEW p \in Seq(T), NEW q \in Seq(T), NEW r \in Seq(T)
  PROVE  (p \o q) \o r = p \o (q \o r)
OBVIOUS

-----------------------------------------------------------------------------
(* Addresses of Shelley *)

IsShelley(a) ==
  /\ a = [form |-> "shelley", payment |-> a.payment, staking |-> a.staking, network |-> a.network]
  /\ AddressKinds(a.payment.kind, a.staking.kind) /\ IsPart(a.payment) /\ IsPart(a.staking)
  /\ a.network \in {0, 1}

\* The header of the bytes decides which parts are read.
LEMMA HeaderRead ==
  ASSUME NEW v
  PROVE  IF v # <<>> /\ v[1] \div 16 \in ShelleyTypes /\ v[1] % 16 \in {0, 1}
         THEN FromShelley(v) = FromParts(v[1] \div 16, v[1] % 16, Tail(v))
         ELSE Failed(FromShelley(v))
<1> DEFINE n == v[1] \div 16
           low == v[1] % 16
<1>1. n \in ShelleyTypes <=> n \in 0..8 \cup {14, 15} /\ n # ByronType
  <2> HIDE DEF n
  <2> QED BY DEF ShelleyTypes, ByronType
<1>2. NetworkOf(v[1]) = IF low \in {0, 1} THEN Ok(low) ELSE Raises
  BY DEF NetworkOf
<1>3. FromShelley(v) =
        IF v = <<>> THEN Raises
        ELSE IF n \notin 0..8 \cup {14, 15} THEN Raises
        ELSE IF Failed(NetworkOf(v[1])) THEN NetworkOf(v[1])
        ELSE IF n = ByronType THEN Refused
        ELSE FromParts(n, NetworkOf(v[1]).ok, Tail(v))
  BY DEF FromShelley
<1> HIDE DEF n, low
<1> QED
  BY <1>1, <1>2, <1>3, Outcomes DEF n, low

\* What is read from the parts is an address with them, of the bytes that were read.
LEMMA PartsRead ==
  ASSUME NEW n \in ShelleyTypes, NEW net \in {0, 1}, NEW payload \in Seq(Octet),
         ~Failed(FromParts(n, net, payload))
  PROVE  \E a : /\ FromParts(n, net, payload) = Ok(a) /\ IsShelley(a) /\ a.network = net
                /\ a.payment.kind = PaymentKind(n) /\ a.staking.kind = StakingKind(n)
                /\ (StakingKind(n) = "pointer" => Unpadded(SubSeq(payload, HashSize + 1, Len(payload)))) =>
                     PartBytes(a.payment) \o PartBytes(a.staking) = payload
<1> DEFINE k == PaymentKind(n)
           l == StakingKind(n)
           at == Split(n, payload)
           p == SubSeq(payload, 1, at)
           q == SubSeq(payload, at + 1, Len(payload))
           a == [form |-> "shelley", payment |-> Part(k, p).ok, staking |-> Part(l, q).ok, network |-> net]
<1>1. AddressKinds(k, l) /\ k \in PartKinds /\ l \in PartKinds
  BY KindsOfType DEF AddressKinds, PartKinds
<1>2. at \in 0..Len(payload)
  <2> DEFINE size == Len(payload)
  <2>1. size \in Nat /\ at \in {0, size, HashSize} /\ (at = HashSize => (~(size < HashSize) \/ at = size))
    <3>1. size \in Nat
      OBVIOUS
    <3>2. at = IF k = "nil" THEN 0 ELSE IF l = "nil" \/ size < HashSize THEN size ELSE HashSize
      BY DEF Split
    <3> HIDE DEF at, size, k, l
    <3> QED BY <3>1, <3>2 DEF HashSize
  <2> HIDE DEF at, size
  <2>2. at \in 0..size
    BY <2>1 DEF HashSize
  <2> QED BY <2>2 DEF size
<1>3. p \in Seq(Octet) /\ q \in Seq(Octet) /\ p \o q = payload /\ Len(p) = at
  <2> HIDE DEF at
  <2> QED BY <1>2, SlicesJoined
<1>4. ~Failed(Part(l, q)) /\ ~Failed(Part(k, p)) /\ FromParts(n, net, payload) = Ok(a)
  <2> HIDE DEF p, q, k, l
  <2>1. FromParts(n, net, payload) = IF Failed(Part(l, q)) THEN Part(l, q)
                                     ELSE IF Failed(Part(k, p)) THEN Part(k, p) ELSE Ok(a)
    BY DEF FromParts, p, q, k, l
  <2> QED BY <2>1
<1> HIDE DEF k, l, p, q
<1>5. /\ IsPart(Part(k, p).ok) /\ Part(k, p).ok.kind = k
      /\ (k = "pointer" => Unpadded(p)) => PartBytes(Part(k, p).ok) = p
  BY <1>1, <1>3, <1>4, PartRead
<1>6. /\ IsPart(Part(l, q).ok) /\ Part(l, q).ok.kind = l
      /\ (l = "pointer" => Unpadded(q)) => PartBytes(Part(l, q).ok) = q
  BY <1>1, <1>3, <1>4, PartRead
<1>7. k # "pointer"
  BY <1>1 DEF AddressKinds
<1>8. a.form = "shelley" /\ a.payment = Part(k, p).ok /\ a.staking = Part(l, q).ok /\ a.network = net
      /\ a = [form |-> "shelley", payment |-> a.payment, staking |-> a.staking, network |-> a.network]
  OBVIOUS
<1>9. l = "pointer" => q = SubSeq(payload, HashSize + 1, Len(payload))
  <2>1. CASE l = "pointer"
    <3>1. k \in {"key", "script"}
      BY <1>1, <2>1 DEF AddressKinds
    <3>2. Len(p) = HashSize
      BY <3>1, <1>4, Outcomes DEF Part
    <3> HIDE DEF at
    <3> QED
      BY <3>2, <1>3 DEF q
  <2> QED BY <2>1
<1> HIDE DEF a
<1>10. IsShelley(a)
  BY <1>1, <1>5, <1>6, <1>8 DEF IsShelley
<1>11. (l = "pointer" => Unpadded(SubSeq(payload, HashSize + 1, Len(payload)))) =>
          PartBytes(a.payment) \o PartBytes(a.staking) = payload
  BY <1>3, <1>5, <1>6, <1>7, <1>8, <1>9
<1> QED
  BY <1>4, <1>5, <1>6, <1>8, <1>10, <1>11 DEF k, l

LEMMA HeaderParts ==
  ASSUME NEW n \in ShelleyTypes, NEW net \in {0, 1}
  PROVE  16 * n + net \in Octet /\ (16 * n + net) \div 16 = n /\ (16 * n + net) % 16 = net
BY DEF ShelleyTypes, Octet

\* An address is found again in its bytes.
LEMMA ShelleyReadBack ==
  ASSUME NEW a, IsShelley(a)
  PROVE  /\ ShelleyBytes(a) \in Seq(Octet) /\ ShelleyBytes(a)[1] % 16 \in {0, 1}
         /\ Len(ShelleyBytes(a)) = 1 + Len(PartBytes(a.payment)) + Len(PartBytes(a.staking))
         /\ FromShelley(ShelleyBytes(a)) = Ok(a)
<1> DEFINE k == a.payment.kind
           l == a.staking.kind
           n == AddressType[k][l]
           h == 16 * n + a.network
           p == PartBytes(a.payment)
           q == PartBytes(a.staking)
           payload == p \o q
           v == ShelleyBytes(a)
<1>1. AddressKinds(k, l) /\ IsPart(a.payment) /\ IsPart(a.staking) /\ a.network \in {0, 1}
  BY DEF IsShelley
<1>2. n \in ShelleyTypes /\ PaymentKind(n) = k /\ StakingKind(n) = l
  BY <1>1, TypeOfKinds
<1>3. h \in Octet /\ h \div 16 = n /\ h % 16 = a.network
  <2> HIDE DEF n
  <2> QED BY <1>1, <1>2, HeaderParts
<1>4. /\ p \in Seq(Octet) /\ Part(k, p) = Ok(a.payment) /\ (k \in {"key", "script"} => Len(p) = HashSize)
      /\ k = "nil" => Len(p) = 0
  BY <1>1, PartReadBack
<1>5. /\ q \in Seq(Octet) /\ Part(l, q) = Ok(a.staking) /\ (l \in {"key", "script"} => Len(q) = HashSize)
      /\ l = "nil" => Len(q) = 0
  BY <1>1, PartReadBack
<1> HIDE DEF p, q
<1>6. /\ payload \in Seq(Octet) /\ Len(payload) = Len(p) + Len(q)
      /\ SubSeq(payload, 1, Len(p)) = p /\ SubSeq(payload, Len(p) + 1, Len(payload)) = q
  BY <1>4, <1>5, JoinedSlices
<1>7. v = <<h>> \o payload
  <2>1. HeaderByte(a) = h
    BY DEF HeaderByte
  <2>2. <<h>> \in Seq(Octet)
    <3> HIDE DEF h
    <3> QED BY <1>3
  <2>3. v = (<<h>> \o p) \o q
    BY <2>1 DEF ShelleyBytes, p, q
  <2> HIDE DEF h, v
  <2>4. (<<h>> \o p) \o q = <<h>> \o (p \o q)
    BY <2>2, <1>4, <1>5, JoinedTwice
  <2> QED BY <2>3, <2>4
<1> HIDE DEF payload, h, n, v
<1>8. v \in Seq(Octet) /\ v # <<>> /\ Len(v) = 1 + Len(payload) /\ v[1] = h /\ Tail(v) = payload
  BY <1>3, <1>6, <1>7, Headed
<1>9. FromShelley(v) = FromParts(n, a.network, payload)
  BY <1>1, <1>2, <1>3, <1>8, HeaderRead
<1>10. Split(n, payload) = Len(p)
  <2> DEFINE size == Len(payload)
             x == Len(p)
             y == Len(q)
  <2>1. size = x + y /\ x \in Nat /\ y \in Nat
    BY <1>4, <1>5, <1>6
  <2>2. Split(n, payload) = IF k = "nil" THEN 0 ELSE IF l = "nil" \/ size < HashSize THEN size ELSE HashSize
    BY <1>2 DEF Split
  <2>3. /\ k = "nil" => x = 0
        /\ l = "nil" => y = 0
        /\ k # "nil" => x = HashSize
    BY <1>1, <1>4, <1>5 DEF AddressKinds
  <2> HIDE DEF size, x, y, k, l
  <2>4. Split(n, payload) = x
    BY <2>1, <2>2, <2>3 DEF HashSize
  <2> QED BY <2>4 DEF x
<1>11. FromParts(n, a.network, payload) = Ok(a)
  <2>1. FromParts(n, a.network, payload) =
          Ok([form |-> "shelley", payment |-> a.payment, staking |-> a.staking, network |-> a.network])
    <3> HIDE DEF k, l
    <3>1. ~Failed(Part(k, p)) /\ ~Failed(Part(l, q)) /\ Part(k, p).ok = a.payment /\ Part(l, q).ok = a.staking
      BY <1>4, <1>5, Outcomes
    <3> QED
      BY <1>2, <1>6, <1>10, <3>1 DEF FromParts
  <2> QED
    BY <2>1 DEF IsShelley
<1>12. Len(v) = 1 + Len(p) + Len(q)
  <2> DEFINE x == Len(p)
             y == Len(q)
             z == Len(payload)
  <2>1. x \in Nat /\ y \in Nat /\ z = x + y /\ Len(v) = 1 + z
    BY <1>4, <1>5, <1>6, <1>8
  <2> HIDE DEF x, y, z
  <2>2. 1 + z = 1 + x + y
    BY <2>1
  <2> QED BY <2>1, <2>2 DEF x, y
<1>13. v[1] % 16 \in {0, 1}
  BY <1>1, <1>3, <1>8
<1> QED
  BY <1>8, <1>9, <1>11, <1>12, <1>13 DEF v, p, q

\* Bytes that are read are an address, which is written again to the same bytes
\* unless they are padded.
LEMMA ShelleyRead ==
  ASSUME NEW v \in Seq(Octet), ~Failed(FromShelley(v))
  PROVE  \E a : /\ FromShelley(v) = Ok(a) /\ IsShelley(a)
                /\ ~Padded(Octets(v)) => ShelleyBytes(a) = v
<1> DEFINE n == v[1] \div 16
           net == v[1] % 16
           payload == Tail(v)
<1>1. v # <<>> /\ n \in ShelleyTypes /\ net \in {0, 1} /\ FromShelley(v) = FromParts(n, net, payload)
  BY HeaderRead
<1>2. /\ v[1] \in Octet /\ payload \in Seq(Octet) /\ Len(payload) = Len(v) - 1 /\ v = <<v[1]>> \o payload
      /\ \A i \in 1..(Len(v) - 1) : payload[i] = v[i + 1]
  BY <1>1, HeadAndTail
<1> HIDE DEF payload
<1>3. 16 * n + net = v[1]
  <2> DEFINE h == v[1]
  <2>1. h \in 0..255
    BY <1>2 DEF Octet
  <2> HIDE DEF h
  <2>2. 16 * (h \div 16) + (h % 16) = h
    BY <2>1
  <2> QED BY <2>2 DEF h
<1> HIDE DEF n, net
<1>4. PICK a : /\ FromParts(n, net, payload) = Ok(a) /\ IsShelley(a) /\ a.network = net
               /\ a.payment.kind = PaymentKind(n) /\ a.staking.kind = StakingKind(n)
               /\ (StakingKind(n) = "pointer" => Unpadded(SubSeq(payload, HashSize + 1, Len(payload)))) =>
                    PartBytes(a.payment) \o PartBytes(a.staking) = payload
  BY <1>1, <1>2, PartsRead
<1>5. ASSUME ~Padded(Octets(v)), StakingKind(n) = "pointer"
      PROVE  Unpadded(SubSeq(payload, HashSize + 1, Len(payload)))
  <2> DEFINE w == Octets(v)
             q == SubSeq(payload, HashSize + 1, Len(payload))
             size == Len(v)
             m == Len(payload)
  <2>1. w.form = "octets" /\ w.octets = v
    BY DEF Octets
  <2>2. n \in {4, 5}
    BY <1>5 DEF StakingKind
  <2>3. /\ ~\E i \in (HashSize + 2)..size : v[i] = 128 /\ (i = HashSize + 2 \/ v[i - 1] < 128)
        /\ ~(v[size] >= 128)
    BY <2>1, <2>2, <1>5 DEF Padded, n
  <2>4. size \in Nat /\ m = size - 1 /\ m \in Nat
    BY <1>2, OctetsOf
  \* The pointer is what follows the hash.
  <2>5. m >= HashSize + 1
    <3>1. ~Failed(FromParts(n, net, payload))
      BY <1>4, Outcomes
    <3> DEFINE at == Split(n, payload)
               k == PaymentKind(n)
               p == SubSeq(payload, 1, at)
               r == SubSeq(payload, at + 1, Len(payload))
    <3>2. ~Failed(Part(k, p)) /\ ~Failed(Part("pointer", r))
      <4> HIDE DEF p, r
      <4>1. FromParts(n, net, payload) =
             IF Failed(Part("pointer", r)) THEN Part("pointer", r) ELSE IF Failed(Part(k, p)) THEN Part(k, p)
             ELSE Ok([form |-> "shelley", payment |-> Part(k, p).ok, staking |-> Part("pointer", r).ok, network |-> net])
        BY <1>5 DEF FromParts, p, r
      <4> QED BY <3>1, <4>1
    <3>3. k \in {"key", "script"}
      BY <2>2 DEF PaymentKind
    <3>4. Len(p) = HashSize
      BY <3>2, <3>3, Outcomes DEF Part
    <3>5. at = IF m < HashSize THEN m ELSE HashSize
      BY <3>3, <1>5 DEF Split
    <3>6. at \in 0..m /\ at \in Nat
      <4> HIDE DEF at, m
      <4> QED BY <3>5, <2>4 DEF HashSize
    <3>7. Len(p) = at /\ r \in Seq(Octet) /\ Len(r) = m - at
      <4> HIDE DEF at
      <4> QED BY <1>2, <3>6, SlicesJoined
    <3>8. r # <<>>
      <4>1. ASSUME r = <<>> PROVE FALSE
        <5>1. DecodePointer(<<>>) = Undecodable
          <6>1. <<>> \in Seq(Octet) /\ Len(<<>>) = 0
            OBVIOUS
          <6> DEFINE read == ReadState(<<>>)
          <6>2. /\ read[0] = NothingRead
                /\ DecodePointer(<<>>) = IF Len(read[0].ints) # 3 THEN Undecodable
                                         ELSE Ok([kind |-> "pointer", numbers |-> read[0].ints])
            BY <6>1, ReadSteps
          <6> HIDE DEF read
          <6>3. read[0].ints = <<>> /\ Len(<<>>) # 3
            BY <6>2 DEF NothingRead
          <6> QED BY <6>2, <6>3
        <5> HIDE DEF r
        <5>2. Part("pointer", r) = Undecodable
          BY <4>1, <5>1 DEF Part
        <5> QED BY <5>2, <3>2, Outcomes
      <4> QED BY <4>1
    <3>9. Len(r) # 0
      <4> HIDE DEF r
      <4> QED BY <3>7, <3>8
    <3> HIDE DEF at, m, p, r
    <3> QED BY <3>4, <3>5, <3>6, <3>7, <3>9, <2>4
  <2>6. /\ q \in Seq(Octet) /\ Len(q) = m - HashSize /\ HashSize \in Nat
        /\ \A i \in 1..(m - HashSize) : q[i] = payload[HashSize + i]
    <3>1. HashSize \in 0..m /\ HashSize \in Nat
      <4> HIDE DEF m
      <4> QED BY <2>4, <2>5 DEF HashSize
    <3> QED BY <3>1, <1>2, SlicesJoined
  <2>7. ASSUME NEW i \in 1..(m - HashSize)
        PROVE  q[i] = v[HashSize + 1 + i] /\ HashSize + 1 + i \in (HashSize + 2)..size
    <3> HIDE DEF m, size, q
    <3>1. HashSize + i \in 1..(size - 1) /\ (HashSize + i) + 1 = HashSize + 1 + i
      BY <2>4, <2>5 DEF HashSize
    <3>2. payload[HashSize + i] = v[(HashSize + i) + 1]
      BY <3>1, <1>2 DEF size
    <3>3. HashSize + 1 + i \in (HashSize + 2)..size
      BY <2>4, <2>5 DEF HashSize
    <3> QED BY <2>6, <3>1, <3>2, <3>3
  <2>8. \A i \in 1..Len(q) : q[i] \in 0..255
    BY <2>6, OctetsOf
  <2> DEFINE c == Len(q)
  <2>9. c \in Nat /\ c = m - HashSize /\ c >= 1 /\ HashSize + 1 + c = size
    <3> HIDE DEF q, m, size
    <3> QED BY <2>4, <2>5, <2>6 DEF HashSize
  <2> HIDE DEF q, m, size, w
  <2>10. ASSUME NEW i \in 1..c, q[i] = 128
         PROVE  i # 1 /\ q[i - 1] >= 128
    <3>1. v[HashSize + 1 + i] = 128 /\ HashSize + 1 + i \in (HashSize + 2)..size
      BY <2>7, <2>9, <2>10
    <3>2. HashSize + 1 + i # HashSize + 2 /\ ~(v[(HashSize + 1 + i) - 1] < 128)
      BY <2>3, <3>1
    <3>3. i # 1
      BY <3>2 DEF HashSize
    <3>4. i - 1 \in 1..c /\ (HashSize + 1 + i) - 1 = HashSize + 1 + (i - 1)
      BY <3>3, <2>9 DEF HashSize
    <3>5. q[i - 1] = v[(HashSize + 1 + i) - 1] /\ q[i - 1] \in 0..255
      BY <3>4, <2>7, <2>8, <2>9
    <3> DEFINE x == q[i - 1]
    <3>6. ~(x < 128) /\ x \in 0..255
      BY <3>2, <3>5
    <3> HIDE DEF x
    <3>7. x >= 128
      BY <3>6
    <3> QED BY <3>3, <3>7 DEF x
  <2>11. q[c] < 128
    <3>1. c \in 1..c
      BY <2>9
    <3>2. q[c] = v[size] /\ q[c] \in 0..255
      BY <3>1, <2>7, <2>8, <2>9
    <3> DEFINE x == q[c]
    <3>3. ~(x >= 128) /\ x \in 0..255
      BY <2>3, <3>2
    <3> HIDE DEF x
    <3>4. x < 128
      BY <3>3
    <3> QED BY <3>4 DEF x
  <2>12. Unpadded(q)
    BY <2>10, <2>11 DEF Unpadded
  <2> QED BY <2>12 DEF q
<1>6. ASSUME ~Padded(Octets(v))
      PROVE  ShelleyBytes(a) = v
  <2> DEFINE p == PartBytes(a.payment)
             q == PartBytes(a.staking)
  <2>1. p \o q = payload
    BY <1>4, <1>5, <1>6
  <2>2. HeaderByte(a) = v[1]
    BY <1>1, <1>3, <1>4, KindsOfType DEF HeaderByte
  <2>3. p \in Seq(Octet) /\ q \in Seq(Octet)
    BY <1>4, PartReadBack DEF IsShelley
  <2>4. ShelleyBytes(a) = (<<v[1]>> \o p) \o q
    BY <2>2 DEF ShelleyBytes
  <2> HIDE DEF p, q
  <2>5. <<v[1]>> \in Seq(Octet)
    BY <1>2
  <2>6. (<<v[1]>> \o p) \o q = <<v[1]>> \o (p \o q)
    BY <2>3, <2>5, JoinedTwice
  <2> QED BY <2>1, <2>4, <2>6, <1>2
<1> QED
  BY <1>1, <1>4, <1>6

-----------------------------------------------------------------------------
(* Addresses as bytes and as text *)

\* Neither bytes nor texts are Nil.
LEMMA BytesNotNil ==
  ASSUME NEW T, NEW s \in Seq(T), Len(s) >= 2
  PROVE  s # Nil
<1>1. 1 \in DOMAIN s /\ 2 \in DOMAIN s
  OBVIOUS
<1>2. DOMAIN Nil = {"nil"}
  BY DEF Nil
<1> QED
  BY <1>1, <1>2

LEMMA FormNotNil ==
  ASSUME NEW t, "form" \in DOMAIN t
  PROVE  t # Nil
BY DEF Nil

IsByron(b) ==
  /\ b = [form |-> "byron", hash |-> b.hash, attrs |-> b.attrs, type |-> b.type, crc |-> b.crc, network |-> b.network]
  /\ Len(b.hash) = HashSize /\ b.attrs # "list" /\ b.type \in {0, 2}
  /\ b.network = ByronNetwork(b.attrs)

\* An address of Byron whose checksum is that of its canonical payload.
HasOwnCrc(b) ==
  b.crc = [arity |-> 3, hash |-> b.hash, attrs |-> b.attrs, type |-> b.type, canonical |-> TRUE]

LEMMA ByronReadBack ==
  ASSUME NEW b, IsByron(b), HasOwnCrc(b)
  PROVE  /\ FromByronCbor(ByronBytes(b)) = Ok(b) /\ AddressOfBytes(ByronBytes(b)) = Ok(b)
         /\ ByronBytes(b).form = "array" /\ "form" \in DOMAIN ByronBytes(b)
<1> DEFINE p == [arity |-> 3, hash |-> b.hash, attrs |-> b.attrs, type |-> b.type, canonical |-> TRUE]
           w == ByronBytes(b)
<1>1. /\ w.form = "array" /\ w.arity = 2 /\ w.tag = 24 /\ w.crc = b.crc /\ w.payload = p
      /\ "form" \in DOMAIN w
  BY DEF ByronBytes
<1>2. p.arity = 3 /\ p.hash = b.hash /\ p.attrs = b.attrs /\ p.type = b.type
  OBVIOUS
<1>3. b.crc = Crc32(p)
  BY DEF HasOwnCrc, Crc32
<1> HIDE DEF p, w
<1>4. ByronAddress(p, b.crc) = b
  BY <1>2 DEF ByronAddress, IsByron
<1>5. FromByronCbor(w) = Ok(b)
  BY <1>1, <1>2, <1>3, <1>4 DEF FromByronCbor, IsByron
<1>6. AddressOfBytes(w) = Ok(b)
  BY <1>1, <1>5 DEF AddressOfBytes
<1> QED
  BY <1>1, <1>5, <1>6 DEF w

\* What is read as an address of Byron has the checksum of the payload it was read from.
LEMMA ByronRead ==
  ASSUME NEW w, ~Failed(FromByronCbor(w)), IsByronPayload(w.payload),
         w = [form |-> "array", arity |-> w.arity, tag |-> w.tag, payload |-> w.payload, crc |-> w.crc]
  PROVE  \E b : /\ FromByronCbor(w) = Ok(b) /\ IsByron(b)
                /\ w.payload.canonical => HasOwnCrc(b) /\ ByronBytes(b) = w
<1> DEFINE p == w.payload
           b == ByronAddress(p, w.crc)
<1>1. /\ w.arity = 2 /\ w.tag = 24 /\ w.crc = p /\ p.arity = 3 /\ Len(p.hash) = HashSize
      /\ p.attrs # "list" /\ p.type \in {0, 2}
      /\ FromByronCbor(w) = Ok(b)
  BY Outcomes DEF FromByronCbor, Crc32
<1>2. /\ b = [form |-> "byron", hash |-> p.hash, attrs |-> p.attrs, type |-> p.type, crc |-> w.crc,
              network |-> ByronNetwork(p.attrs)]
      /\ b.form = "byron" /\ b.hash = p.hash /\ b.attrs = p.attrs /\ b.type = p.type /\ b.crc = w.crc
      /\ b.network = ByronNetwork(p.attrs)
  BY DEF ByronAddress
<1>3. p = [arity |-> p.arity, hash |-> p.hash, attrs |-> p.attrs, type |-> p.type, canonical |-> p.canonical]
      /\ p.canonical \in BOOLEAN
  BY DEF IsByronPayload
<1> HIDE DEF p, b
<1>4. IsByron(b)
  BY <1>1, <1>2 DEF IsByron
<1>5. ASSUME p.canonical
      PROVE  HasOwnCrc(b) /\ ByronBytes(b) = w
  <2>1. p.canonical = TRUE
    BY <1>3, <1>5
  <2>2. p = [arity |-> 3, hash |-> b.hash, attrs |-> b.attrs, type |-> b.type, canonical |-> TRUE]
    BY <1>1, <1>2, <1>3, <2>1
  <2>3. HasOwnCrc(b)
    BY <1>1, <1>2, <2>2 DEF HasOwnCrc
  <2>4. ByronBytes(b) = [form |-> "array", arity |-> 2, tag |-> 24, crc |-> w.crc, payload |-> p]
    BY <1>2, <2>2 DEF ByronBytes
  <2>5. ByronBytes(b) = w
    BY <1>1, <2>4 DEF p
  <2> QED BY <2>3, <2>5
<1> QED
  BY <1>1, <1>4, <1>5 DEF p

IsAddress(a) == IsShelley(a) \/ (IsByron(a) /\ HasOwnCrc(a))

\* The parts of the assumption on the constants.
LEMMA Assumed ==
  /\ \A h \in Digests : IsHash(h, HashSize)
  /\ \A t \in TxIds : IsHash(t, TxIdSize)
  /\ (\A n \in Indexes : n \in Nat /\ n < 65536) /\ Numbers \subseteq Nat
  /\ \A w \in OtherBytes : IsWire(w)
BY IdAssumption

\* The parts with a hash that are written.
LEMMA HashObjects ==
  ASSUME NEW p \in KeyHashes \cup ScriptHashes
  PROVE  IsHashPart(p) /\ p.kind \in {"key", "script"}
<1>1. p = [kind |-> p.kind, hash |-> p.hash] /\ p.kind \in {"key", "script"} /\ p.hash \in Digests
  BY DEF KeyHashes, ScriptHashes
<1>2. IsHash(p.hash, HashSize)
  BY <1>1, Assumed
<1> QED
  BY <1>1, <1>2 DEF IsHashPart

\* The addresses that are written.
LEMMA ShelleyObjects ==
  ASSUME NEW a \in ShelleyAddresses
  PROVE  IsShelley(a) /\ "format" \notin DOMAIN a /\ a.form = "shelley"
<1>1. \A p \in KeyHashes \cup ScriptHashes : IsHashPart(p) /\ p.kind \in {"key", "script"}
  BY HashObjects
<1>2. \A p \in Pointers : IsPointerPart(p) /\ p.kind = "pointer"
  <2>1. TAKE p \in Pointers
  <2>2. p = [kind |-> "pointer", numbers |-> p.numbers] /\ p.numbers \in Numbers \X Numbers \X Numbers
    BY DEF Pointers
  <2>3. p.numbers \in Nat \X Nat \X Nat
    <3>1. Numbers \subseteq Nat
      BY Assumed
    <3> QED BY <2>2, <3>1
  <2>4. p.kind = "pointer"
    BY <2>2
  <2> QED BY <2>2, <2>3, <2>4 DEF IsPointerPart
<1>3. NoPart.kind = "nil"
  BY DEF NoPart
<1>4. a = [form |-> "shelley", payment |-> a.payment, staking |-> a.staking, network |-> a.network]
      /\ a.network \in {0, 1}
  BY DEF ShelleyAddresses
<1>5. a.form = "shelley" /\ "format" \notin DOMAIN a
  BY <1>4
<1>6. \/ /\ a.payment \in KeyHashes \cup ScriptHashes
         /\ a.staking \in KeyHashes \cup ScriptHashes \cup Pointers \cup {NoPart}
      \/ a.payment = NoPart /\ a.staking \in KeyHashes \cup ScriptHashes
  BY DEF ShelleyAddresses
<1>7. AddressKinds(a.payment.kind, a.staking.kind) /\ IsPart(a.payment) /\ IsPart(a.staking)
  <2>1. CASE a.payment \in KeyHashes \cup ScriptHashes /\ a.staking \in KeyHashes \cup ScriptHashes
    BY <2>1, <1>1 DEF AddressKinds, IsPart, PartKinds
  <2>2. CASE a.payment \in KeyHashes \cup ScriptHashes /\ a.staking \in Pointers
    BY <2>2, <1>1, <1>2 DEF AddressKinds, IsPart, PartKinds
  <2>3. CASE a.payment \in KeyHashes \cup ScriptHashes /\ a.staking = NoPart
    BY <2>3, <1>1, <1>3 DEF AddressKinds, IsPart, PartKinds
  <2>4. CASE a.payment = NoPart /\ a.staking \in KeyHashes \cup ScriptHashes
    BY <2>4, <1>1, <1>3 DEF AddressKinds, IsPart, PartKinds
  <2> QED BY <1>6, <2>1, <2>2, <2>3, <2>4
<1> QED
  BY <1>4, <1>5, <1>7 DEF IsShelley

LEMMA ByronObjects ==
  ASSUME NEW b \in ByronAddresses
  PROVE  IsByron(b) /\ HasOwnCrc(b) /\ "format" \notin DOMAIN b /\ b.form = "byron"
<1>1. PICK h \in Digests, at \in ByronAttrs \ {"list"}, n \in {0, 2} :
        b = ByronAddress(ByronPayload(h, at, n), Crc32(ByronPayload(h, at, n)))
  BY DEF ByronAddresses
<1> DEFINE p == ByronPayload(h, at, n)
<1>2. p = [arity |-> 3, hash |-> h, attrs |-> at, type |-> n, canonical |-> TRUE]
  BY DEF ByronPayload
<1>3. p.hash = h /\ p.attrs = at /\ p.type = n
  BY <1>2
<1>4. b = [form |-> "byron", hash |-> h, attrs |-> at, type |-> n, crc |-> p, network |-> ByronNetwork(at)]
  <2> HIDE DEF p
  <2> QED BY <1>1, <1>3 DEF ByronAddress, Crc32, p
<1> HIDE DEF p
<1>5. /\ b.form = "byron" /\ b.hash = h /\ b.attrs = at /\ b.type = n /\ b.crc = p /\ b.network = ByronNetwork(at)
      /\ "format" \notin DOMAIN b
  BY <1>4
<1>6. Len(h) = HashSize
  BY IdAssumption DEF IsHash
<1> QED
  BY <1>2, <1>4, <1>5, <1>6 DEF IsByron, HasOwnCrc

\* An address is found again in its bytes, those of Byron in an array.
LEMMA AddressBytesReadBack ==
  ASSUME NEW a, IsAddress(a)
  PROVE  AddressOfBytes(AddressBytes(a)) = Ok(a) /\ IsBytes(AddressBytes(a)) /\ AddressBytes(a) # Nil
<1>1. CASE IsShelley(a)
  <2>1. a.form = "shelley"
    BY <1>1 DEF IsShelley
  <2>2. AddressBytes(a) = Octets(ShelleyBytes(a))
    BY <2>1 DEF AddressBytes
  <2> DEFINE v == ShelleyBytes(a)
             w == Octets(v)
  <2>3. w.form = "octets" /\ w.octets = v /\ "form" \in DOMAIN w
    BY DEF Octets
  <2>4. FromShelley(v) = Ok(a)
    BY <1>1, ShelleyReadBack
  <2> HIDE DEF w, v
  <2> QED
    BY <2>2, <2>3, <2>4, FormNotNil DEF AddressOfBytes, IsBytes, w, v
<1>2. CASE IsByron(a) /\ HasOwnCrc(a)
  <2>1. a.form = "byron"
    BY <1>2 DEF IsByron
  <2>2. AddressBytes(a) = ByronBytes(a)
    BY <2>1 DEF AddressBytes
  <2> QED
    BY <1>2, <2>2, ByronReadBack, FormNotNil DEF IsBytes
<1> QED
  BY <1>1, <1>2 DEF IsAddress

\* The sizes of the bytes of an address, and when its text is too long.
LEMMA AddressSize ==
  ASSUME NEW a, IsShelley(a)
  PROVE  /\ Len(ShelleyBytes(a)) = 29 \/ Len(ShelleyBytes(a)) = 57
            \/ (a.staking.kind = "pointer" /\ Len(ShelleyBytes(a)) >= 32)
         /\ HrpSize[Hrp(a)] \in Nat /\ Hrp(a) \in {"addr", "addr_test", "stake", "stake_test"}
         /\ TextSize(Hrp(a), ShelleyBytes(a)) <= MaxText <=>
              ~(a.staking.kind = "pointer"
                /\ Len(EncodePointer(a.staking.numbers)) > (IF a.network = 1 THEN 31 ELSE 28))
<1> DEFINE size == Len(ShelleyBytes(a))
           x == Len(PartBytes(a.payment))
           y == Len(PartBytes(a.staking))
           k == a.payment.kind
           l == a.staking.kind
           h == HrpSize[Hrp(a)]
           c == Len(EncodePointer(a.staking.numbers))
           text == TextSize(Hrp(a), ShelleyBytes(a))
           most == IF a.network = 1 THEN 31 ELSE 28
<1>1. size = 1 + x + y
  BY ShelleyReadBack
<1>2. AddressKinds(k, l) /\ IsPart(a.payment) /\ IsPart(a.staking) /\ a.network \in {0, 1}
  BY DEF IsShelley
<1>3. /\ k \in {"key", "script"} => x = HashSize
      /\ k = "nil" => x = 0
  BY <1>2, PartReadBack
<1>4. /\ l \in {"key", "script"} => y = HashSize
      /\ l = "nil" => y = 0
      /\ l = "pointer" => y >= 3 /\ y = c
  BY <1>2, PartReadBack
<1>5. y \in Nat
  <2>1. PartBytes(a.staking) \in Seq(Octet)
    BY <1>2, PartReadBack
  <2> QED BY <2>1, OctetsOf
<1>6. /\ h = IF k = "nil" THEN IF a.network = 1 THEN 5 ELSE 10 ELSE IF a.network = 1 THEN 4 ELSE 9
      /\ Hrp(a) \in {"addr", "addr_test", "stake", "stake_test"}
  BY DEF Hrp, HrpSize
<1>7. text = h + 7 + ((8 * size + 4) \div 5)
  BY DEF TextSize
<1>8. k \in {"key", "script", "nil"} /\ (k = "nil" => l \in {"key", "script"}) /\ l \in PartKinds
  BY <1>2 DEF AddressKinds, PartKinds
<1> HIDE DEF text, c, h, k, l, x, y, size, most
<1>9. h \in Nat
  BY <1>6
<1>10. ASSUME l # "pointer"
       PROVE  (size = 29 \/ size = 57) /\ text <= 108
  <2>1. size = 29 \/ (size = 57 /\ k # "nil")
    <3>1. l \in {"key", "script", "nil"} /\ (y = 28 \/ (l = "nil" /\ y = 0))
      BY <1>4, <1>8, <1>10 DEF HashSize, PartKinds
    <3>2. CASE k = "nil"
      BY <3>1, <3>2, <1>1, <1>3, <1>8
    <3>3. CASE k # "nil"
      <4>1. x = 28
        BY <3>3, <1>3, <1>8 DEF HashSize
      <4> QED BY <3>1, <3>3, <4>1, <1>1
    <3> QED BY <3>2, <3>3
  <2>2. h <= 10 /\ (k # "nil" => h <= 9)
    BY <1>6
  <2> QED BY <1>7, <1>9, <2>1, <2>2
<1>11. ASSUME l = "pointer"
       PROVE  size >= 32 /\ (text <= 108 <=> ~(c > most))
  <2>1. size = 29 + c /\ c \in Nat /\ c >= 3
    BY <1>1, <1>3, <1>4, <1>5, <1>8, <1>11 DEF HashSize
  <2>2. h = IF a.network = 1 THEN 4 ELSE 9
    BY <1>6, <1>8, <1>11
  <2>3. CASE a.network = 1
    <3>1. h = 4 /\ most = 31
      BY <2>2, <2>3 DEF most
    <3> QED BY <2>1, <3>1, <1>7
  <2>4. CASE a.network = 0
    <3>1. h = 9 /\ most = 28
      BY <2>2, <2>4 DEF most
    <3> QED BY <2>1, <3>1, <1>7
  <2> QED BY <1>2, <2>3, <2>4
<1>12. size = 29 \/ size = 57 \/ (l = "pointer" /\ size >= 32)
  <2>1. CASE l = "pointer"
    BY <2>1, <1>11
  <2>2. CASE l # "pointer"
    BY <2>2, <1>10
  <2> QED BY <2>1, <2>2
<1>13. text <= MaxText <=> ~(l = "pointer" /\ c > most)
  BY <1>10, <1>11 DEF MaxText
<1> QED
  BY <1>6, <1>9, <1>12, <1>13 DEF text, c, h, l, size, most

\* An address is found again in its text, if it has one.
LEMMA AddressTextReadBack ==
  ASSUME NEW a, IsAddress(a), AddressText(a) # Nil
  PROVE  AddressOfText(AddressText(a)) = Ok(a) /\ ~IsBytes(AddressText(a))
<1>1. CASE IsShelley(a)
  <2> DEFINE v == ShelleyBytes(a)
             t == AddressText(a)
  <2>1. a.form = "shelley"
    BY <1>1 DEF IsShelley
  <2>2. t = Bech32(Hrp(a), v)
    BY <2>1 DEF AddressText
  <2>3. v \in Seq(Octet) /\ FromShelley(v) = Ok(a)
    BY <1>1, ShelleyReadBack
  <2>4. HrpSize[Hrp(a)] \in Nat /\ Len(v) >= 29
    <3> DEFINE size == Len(v)
    <3>1. HrpSize[Hrp(a)] \in Nat /\ (size = 29 \/ size = 57 \/ size >= 32) /\ size \in Nat
      BY <1>1, <2>3, AddressSize, OctetsOf
    <3> HIDE DEF size
    <3>2. size >= 29
      BY <3>1
    <3> QED BY <3>1, <3>2 DEF size
  <2> HIDE DEF v, t
  <2>5. IsTextOf(t, Hrp(a), v)
    BY <2>2, <2>3, <2>4, TextReadBack DEF t
  <2>6. Len(v) >= 2 /\ ~(Len(v) < 2)
    BY <2>3, <2>4, OctetsOf
  <2>7. v # Nil
    BY <2>3, <2>6, BytesNotNil
  <2>8. t.form = "bech32" /\ BytesOfText(t) = v
    BY <2>5 DEF IsTextOf
  <2>9. AddressOfText(t) = Ok(a)
    BY <2>3, <2>6, <2>7, <2>8 DEF AddressOfText
  <2> QED
    BY <2>8, <2>9 DEF IsBytes, t
<1>2. CASE IsByron(a) /\ HasOwnCrc(a)
  <2>1. a.form = "byron"
    BY <1>2 DEF IsByron
  <2>2. AddressText(a) = [form |-> "base58", bytes |-> ByronBytes(a)]
    BY <2>1 DEF AddressText
  <2>3. AddressText(a).form = "base58" /\ AddressText(a).bytes = ByronBytes(a)
    BY <2>2
  <2>4. FromByronCbor(ByronBytes(a)) = Ok(a)
    BY <1>2, ByronReadBack
  <2> QED
    BY <2>3, <2>4 DEF AddressOfText, IsBytes
<1> QED
  BY <1>1, <1>2 DEF IsAddress

-----------------------------------------------------------------------------
(* Credentials of governance *)

Roles == {"cc_hot", "cc_cold", "drep"}

IsCredential(x) == x.gov \in Roles /\ IsHashPart(x.credential) /\ x.format \in Formats

\* The bytes of a credential and its text.
LEMMA CredentialWritten ==
  ASSUME NEW x, IsCredential(x)
  PROVE  /\ CredentialBytes(x) \in Seq(Octet)
         /\ IsTextOf(CredentialText(x), CredentialHrp(x), CredentialBytes(x))
         /\ CredentialHrp(x) # "gov_action"
         /\ x.format = "cip105" => /\ CredentialBytes(x) = x.credential.hash /\ Len(CredentialBytes(x)) = HashSize
                                   /\ x.credential.kind = "script" <=>
                                        CredentialHrp(x) \in {"cc_hot_script", "cc_cold_script", "drep_script"}
         /\ x.format = "cip129" =>
              /\ Len(CredentialBytes(x)) = Cip129Size /\ Tail(CredentialBytes(x)) = x.credential.hash
              /\ CredentialBytes(x)[1] \div 16 = KeyTypes[x.gov]
              /\ CredentialBytes(x)[1] % 16 = (IF x.credential.kind = "key" THEN 2 ELSE 3)
<1> DEFINE c == x.credential
           h == 16 * KeyTypes[x.gov] + CredentialTypes[c.kind]
           v == CredentialBytes(x)
           hrp == CredentialHrp(x)
<1>1. c.kind \in {"key", "script"} /\ c.hash \in Seq(Octet) /\ Len(c.hash) = HashSize
  BY DEF IsCredential, IsHashPart, IsHash
<1>2. KeyTypes[x.gov] \in 0..2 /\ CredentialTypes[c.kind] = IF c.kind = "key" THEN 2 ELSE 3
  BY <1>1 DEF IsCredential, Roles, KeyTypes, CredentialTypes
<1>3. h \in Octet /\ h \div 16 = KeyTypes[x.gov] /\ h % 16 = IF c.kind = "key" THEN 2 ELSE 3
  <2> DEFINE m == KeyTypes[x.gov]
             l == CredentialTypes[c.kind]
  <2>1. m \in 0..2 /\ l \in {2, 3}
    BY <1>2
  <2> HIDE DEF m, l
  <2>2. 16 * m + l \in 0..255 /\ (16 * m + l) \div 16 = m /\ (16 * m + l) % 16 = l
    BY <2>1
  <2>3. 16 * m + l \in Octet
    BY <2>2 DEF Octet
  <2> QED BY <2>2, <2>3, <1>2 DEF m, l
<1>4. v = IF x.format = "cip129" THEN <<h>> \o c.hash ELSE c.hash
  BY DEF CredentialBytes
<1>5. x.format = "cip129" => /\ v \in Seq(Octet) /\ Len(v) = Cip129Size /\ v[1] = h /\ Tail(v) = c.hash
  <2> DEFINE s == <<h>> \o c.hash
  <2>1. s \in Seq(Octet) /\ Len(s) = 1 + Len(c.hash) /\ s[1] = h /\ Tail(s) = c.hash
    <3> HIDE DEF h
    <3> QED BY <1>1, <1>3, Headed
  <2> HIDE DEF s
  <2>2. Len(s) = Cip129Size
    BY <2>1, <1>1 DEF Cip129Size, HashSize
  <2> HIDE DEF h, v
  <2> QED BY <2>1, <2>2, <1>4 DEF s
<1>6. x.format = "cip105" => v = c.hash /\ Len(v) = HashSize
  BY <1>1, <1>4
<1>7. v \in Seq(Octet)
  <2> HIDE DEF v, c
  <2> QED BY <1>1, <1>5, <1>6 DEF IsCredential, Formats
<1>8. /\ hrp # "gov_action" /\ HrpSize[hrp] \in 4..14
      /\ x.format = "cip105" =>
           (c.kind = "script" <=> hrp \in {"cc_hot_script", "cc_cold_script", "drep_script"})
  <2>1. x.gov \in Roles
    BY DEF IsCredential
  <2>2. CASE x.gov = "cc_hot"
    BY <2>2, <1>1 DEF CredentialHrp, HrpSize, ScriptHrps
  <2>3. CASE x.gov = "cc_cold"
    BY <2>3, <1>1 DEF CredentialHrp, HrpSize, ScriptHrps
  <2>4. CASE x.gov = "drep"
    BY <2>4, <1>1 DEF CredentialHrp, HrpSize, ScriptHrps
  <2> QED BY <2>1, <2>2, <2>3, <2>4 DEF Roles
<1>9. IsTextOf(CredentialText(x), hrp, v)
  <2> DEFINE size == Len(v)
             most == HrpSize[hrp]
  <2>1. size \in {28, 29} /\ most \in 4..14
    BY <1>5, <1>6, <1>8 DEF IsCredential, Formats, HashSize, Cip129Size
  <2>2. TextSize(hrp, v) = most + 7 + ((8 * size + 4) \div 5)
    BY DEF TextSize
  <2> HIDE DEF size, most
  <2>3. TextSize(hrp, v) <= MaxText /\ most \in Nat
    BY <2>1, <2>2 DEF MaxText
  <2> HIDE DEF hrp, v
  <2>4. IsTextOf(Bech32(hrp, v), hrp, v)
    BY <1>7, <2>3, TextReadBack DEF most
  <2> QED BY <2>4 DEF CredentialText, hrp, v
<1> QED
  BY <1>3, <1>5, <1>6, <1>7, <1>8, <1>9

\* A credential is found again in its text, by a reader of its role.
LEMMA CredentialReadBack ==
  ASSUME NEW x, IsCredential(x)
  PROVE  DecodeCredential(x.gov, CredentialText(x)) = Ok(x.credential)
<1> DEFINE c == x.credential
           v == CredentialBytes(x)
           t == CredentialText(x)
<1>1. /\ c.kind \in {"key", "script"} /\ c.hash \in Seq(Octet) /\ Len(c.hash) = HashSize
      /\ c = [kind |-> c.kind, hash |-> c.hash]
  BY DEF IsCredential, IsHashPart, IsHash
<1>2. v \in Seq(Octet) /\ BytesOfText(t) = v /\ t.hrp = CredentialHrp(x)
  BY CredentialWritten DEF IsTextOf
<1>3. Part(c.kind, c.hash) = Ok(c)
  BY <1>1 DEF Part
<1>4. CASE x.format = "cip105"
  <2>1. v = c.hash /\ Len(v) = HashSize
        /\ (c.kind = "script" <=> t.hrp \in {"cc_hot_script", "cc_cold_script", "drep_script"})
    BY <1>2, <1>4, CredentialWritten
  <2> HIDE DEF v, t, c
  <2>2. v # Nil
    <3>1. Len(v) >= 2
      BY <2>1 DEF HashSize
    <3> QED BY <3>1, <1>2, BytesNotNil
  <2>3. (IF t.hrp \in {"cc_hot_script", "cc_cold_script", "drep_script"} THEN "script" ELSE "key") = c.kind
    BY <1>1, <2>1
  <2>4. DecodeCredential(x.gov, t) = Part(c.kind, v)
    BY <1>2, <2>1, <2>2, <2>3 DEF DecodeCredential
  <2> QED BY <1>3, <2>1, <2>4 DEF c, t
<1>5. CASE x.format = "cip129"
  <2>1. /\ Len(v) = Cip129Size /\ Tail(v) = c.hash /\ v[1] \div 16 = KeyTypes[x.gov]
        /\ v[1] % 16 = IF c.kind = "key" THEN 2 ELSE 3
    BY <1>5, CredentialWritten
  <2>2. KeyTypes[x.gov] \in 0..2
    BY DEF IsCredential, Roles, KeyTypes
  <2> HIDE DEF v, t, c
  <2>3. v # Nil /\ Len(v) # HashSize
    <3>1. Len(v) >= 2 /\ Len(v) # HashSize
      BY <2>1 DEF HashSize, Cip129Size
    <3> QED BY <3>1, <1>2, BytesNotNil
  <2>4. DecodeCredential(x.gov, t) = Cip129(x.gov, v)
    BY <1>2, <2>1, <2>3 DEF DecodeCredential
  <2>5. (IF v[1] % 16 = 2 THEN "key" ELSE "script") = c.kind /\ v[1] % 16 \in {2, 3}
    BY <1>1, <2>1
  <2>6. Cip129(x.gov, v) = Part(c.kind, c.hash)
    BY <2>1, <2>2, <2>5 DEF Cip129
  <2> QED BY <1>3, <2>4, <2>6 DEF c, t
<1> QED
  BY <1>4, <1>5 DEF IsCredential, Formats

\* The credentials and DReps that are written.
LEMMA CredentialObjects ==
  ASSUME NEW gov \in Roles, NEW x \in GovCredentials(gov)
  PROVE  /\ x = [gov |-> gov, credential |-> x.credential, format |-> x.format]
         /\ x.gov = gov /\ x.credential \in KeyHashes \cup ScriptHashes /\ x.format \in Formats
         /\ IsCredential(x) /\ "format" \in DOMAIN x
<1>1. /\ x = [gov |-> gov, credential |-> x.credential, format |-> x.format]
      /\ x.gov = gov /\ x.credential \in KeyHashes \cup ScriptHashes /\ x.format \in Formats
  BY DEF GovCredentials
<1>2. "format" \in DOMAIN x
  BY <1>1
<1>3. IsHashPart(x.credential)
  BY <1>1, HashObjects
<1> QED
  BY <1>1, <1>2, <1>3 DEF IsCredential

LEMMA DRepObjects ==
  ASSUME NEW d \in DRepIds
  PROVE  /\ d = [drep |-> d.drep, credential |-> d.credential, format |-> d.format]
         /\ d.format \in Formats /\ "format" \in DOMAIN d
         /\ \/ d.drep = 0 /\ d.credential \in KeyHashes
            \/ d.drep = 1 /\ d.credential \in ScriptHashes
            \/ d.drep \in {2, 3} /\ d.credential = NoPart
<1>1. /\ d = [drep |-> d.drep, credential |-> d.credential, format |-> d.format]
      /\ d.format \in Formats
  BY DEF DRepIds
<1>2. "format" \in DOMAIN d
  BY <1>1
<1>3. \/ d.drep = 0 /\ d.credential \in KeyHashes
      \/ d.drep = 1 /\ d.credential \in ScriptHashes
      \/ d.drep \in {2, 3} /\ d.credential = NoPart
  BY DEF DRepIds
<1> QED
  BY <1>1, <1>2, <1>3

\* The credential that the text of a DRep with a hash is of.
CredentialOfDRep(d) == [gov |-> "drep", credential |-> d.credential, format |-> d.format]

LEMMA DRepHash ==
  ASSUME NEW d \in DRepIds, d.drep \in {0, 1}
  PROVE  /\ IsCredential(CredentialOfDRep(d)) /\ CredentialOfDRep(d).gov = "drep"
         /\ CredentialOfDRep(d).credential = d.credential /\ CredentialOfDRep(d).format = d.format
         /\ d.drep = IF d.credential.kind = "key" THEN 0 ELSE 1
         /\ DRepText(d) = CredentialText(CredentialOfDRep(d))
<1> DEFINE x == CredentialOfDRep(d)
<1>1. x.gov = "drep" /\ x.credential = d.credential /\ x.format = d.format
  BY DEF CredentialOfDRep
<1>2. d.format \in Formats /\ ((d.drep = 0 /\ d.credential \in KeyHashes) \/ (d.drep = 1 /\ d.credential \in ScriptHashes))
  BY DRepObjects
<1>3. IsHashPart(d.credential)
  BY <1>2, HashObjects
<1>4. d.credential \in KeyHashes => d.credential.kind = "key"
  BY DEF KeyHashes
<1>5. d.credential \in ScriptHashes => d.credential.kind = "script"
  BY DEF ScriptHashes
<1>6. DRepText(d) = CredentialText(x)
  BY DEF DRepText, CredentialOfDRep
<1> HIDE DEF x
<1>7. IsCredential(x)
  BY <1>1, <1>2, <1>3 DEF IsCredential, Roles
<1> QED
  BY <1>1, <1>2, <1>4, <1>5, <1>6, <1>7 DEF x

\* A DRep is found again in its text.
LEMMA DRepReadBack ==
  ASSUME NEW d \in DRepIds
  PROVE  DRepOfText(DRepText(d)) = Ok([drep |-> d.drep, credential |-> d.credential, format |-> "cip129"])
<1> DEFINE t == DRepText(d)
<1>1. CASE d.drep \in {0, 1}
  <2> DEFINE x == CredentialOfDRep(d)
             c == DecodeCredential("drep", t)
  <2>1. /\ IsCredential(x) /\ x.gov = "drep" /\ x.credential = d.credential
        /\ d.drep = IF d.credential.kind = "key" THEN 0 ELSE 1
        /\ t = CredentialText(x)
    BY <1>1, DRepHash
  <2> HIDE DEF x, t
  <2>2. t.form = "bech32"
    BY <2>1, CredentialWritten DEF IsTextOf
  <2>3. t # WordText("drep_always_abstain") /\ t # WordText("drep_always_no_confidence")
    BY <2>2 DEF WordText
  <2>4. c = Ok(d.credential) /\ ~Failed(c) /\ c.ok = d.credential
    BY <2>1, CredentialReadBack, Outcomes
  <2> HIDE DEF c
  <2>5. DRepOfText(t) = Ok(DRepRead(IF c.ok.kind = "key" THEN 0 ELSE 1, c.ok))
    BY <2>3, <2>4 DEF DRepOfText, c
  <2> QED
    BY <2>1, <2>4, <2>5 DEF DRepRead, t
<1>2. CASE d.drep = 2
  <2>1. t = WordText("drep_always_abstain") /\ d.credential = NoPart
    BY <1>2, DRepObjects DEF DRepText
  <2> HIDE DEF t
  <2>2. DRepOfText(t) = Ok(DRepRead(2, NoPart))
    BY <2>1 DEF DRepOfText
  <2> QED
    BY <1>2, <2>1, <2>2 DEF DRepRead, t
<1>3. CASE d.drep = 3
  <2>1. t = WordText("drep_always_no_confidence") /\ d.credential = NoPart
    BY <1>3, DRepObjects DEF DRepText
  <2>2. t # WordText("drep_always_abstain")
    BY <2>1 DEF WordText
  <2> HIDE DEF t
  <2>3. DRepOfText(t) = Ok(DRepRead(3, NoPart))
    BY <2>1, <2>2 DEF DRepOfText
  <2> QED
    BY <1>3, <2>1, <2>3 DEF DRepRead, t
<1> QED
  BY <1>1, <1>2, <1>3, DRepObjects

-----------------------------------------------------------------------------
(* Ids of governance actions *)

\* The id of a governance action is found again in its text.
LEMMA ActionReadBack ==
  ASSUME NEW g \in Actions
  PROVE  /\ GovActionOfText(GovActionText(g)) = Ok(g)
         /\ "format" \notin DOMAIN g
         /\ \E v \in Seq(Octet) : /\ IsTextOf(GovActionText(g), "gov_action", v)
                                  /\ Len(v) \in {33, 34} /\ v[1] = g.tx[1]
<1> DEFINE n == g.index
           b == IndexBytes(n)
           v == g.tx \o b
           t == GovActionText(g)
<1>1. g = [tx |-> g.tx, index |-> n] /\ g.tx \in TxIds /\ n \in Indexes
  BY DEF Actions
<1>2. g.tx \in Seq(Octet) /\ Len(g.tx) = TxIdSize /\ n \in Nat /\ n < 65536
  <2>1. IsHash(g.tx, TxIdSize) /\ n \in Nat /\ n < 65536
    BY <1>1, Assumed
  <2> QED BY <2>1 DEF IsHash
<1>3. /\ b \in Seq(Octet) /\ Len(b) \in {1, 2} /\ IndexOf(b) = n
  <2> HIDE DEF n
  <2>1. CASE n < 256
    <3>1. b = <<n>> /\ n \in Octet
      BY <2>1, <1>2 DEF IndexBytes, Octet
    <3>2. Len(b) = 1 /\ b[1] = n /\ b \in Seq(Octet)
      BY <3>1
    <3>3. IndexOf(b) = 0 + n
      BY <3>2 DEF IndexOf
    <3> QED BY <3>2, <3>3, <1>2
  <2>2. CASE ~(n < 256)
    <3> DEFINE x == n \div 256
               y == n % 256
    <3>1. x \in 0..255 /\ y \in 0..255 /\ 256 * x + y = n
      BY <2>2, <1>2
    <3>2. b = <<x, y>> /\ x \in Octet /\ y \in Octet
      BY <3>1, <2>2 DEF IndexBytes, Octet
    <3> HIDE DEF x, y
    <3>3. Len(b) = 2 /\ b[1] = x /\ b[2] = y /\ b \in Seq(Octet)
      BY <3>2
    <3>4. IndexOf(b) = 256 * x + y
      BY <3>3 DEF IndexOf
    <3> QED BY <3>1, <3>3, <3>4
  <2> QED BY <2>1, <2>2
<1> HIDE DEF b, n
<1>4. /\ v \in Seq(Octet) /\ Len(v) = Len(g.tx) + Len(b)
      /\ SubSeq(v, 1, Len(g.tx)) = g.tx /\ SubSeq(v, Len(g.tx) + 1, Len(v)) = b
  <2> DEFINE tx == g.tx
  <2>1. tx \in Seq(Octet) /\ b \in Seq(Octet)
    BY <1>2, <1>3
  <2> HIDE DEF tx
  <2>2. /\ tx \o b \in Seq(Octet) /\ Len(tx \o b) = Len(tx) + Len(b)
        /\ SubSeq(tx \o b, 1, Len(tx)) = tx /\ SubSeq(tx \o b, Len(tx) + 1, Len(tx \o b)) = b
    BY <2>1, JoinedSlices
  <2> QED BY <2>2 DEF tx
<1>5. v[1] = g.tx[1]
  <2>1. Len(g.tx) >= 1
    BY <1>2 DEF TxIdSize
  <2> QED BY <2>1, <1>2, <1>3
<1> HIDE DEF v
<1>6. Len(v) \in {33, 34}
  <2> DEFINE m == Len(b)
             size == Len(v)
  <2>1. m \in {1, 2} /\ size = TxIdSize + m
    BY <1>2, <1>3, <1>4
  <2> HIDE DEF m, size
  <2>2. size \in {33, 34}
    BY <2>1 DEF TxIdSize
  <2> QED BY <2>2 DEF size
<1>7. IsTextOf(t, "gov_action", v)
  <2> DEFINE size == Len(v)
  <2>1. TextSize("gov_action", v) = 10 + 7 + ((8 * size + 4) \div 5) /\ HrpSize["gov_action"] \in Nat
    BY DEF TextSize, HrpSize
  <2>2. size \in {33, 34}
    BY <1>6
  <2> HIDE DEF size
  <2>3. TextSize("gov_action", v) <= MaxText
    BY <2>1, <2>2 DEF MaxText
  <2>4. IsTextOf(Bech32("gov_action", v), "gov_action", v)
    BY <1>4, <2>1, <2>3, TextReadBack
  <2> QED BY <2>4 DEF GovActionText, v, b, n
<1> HIDE DEF t
<1>8. GovActionOfText(t) = Ok(g)
  <2>1. BytesOfText(t) = v /\ t.hrp = "gov_action"
    BY <1>7 DEF IsTextOf
  <2>2. v # Nil /\ ~(Len(v) <= TxIdSize)
    <3>1. Len(v) >= 2 /\ ~(Len(v) <= TxIdSize)
      <4> DEFINE size == Len(v)
      <4>1. size \in {33, 34}
        BY <1>6
      <4> HIDE DEF size
      <4>2. size >= 2 /\ ~(size <= TxIdSize)
        BY <4>1 DEF TxIdSize
      <4> QED BY <4>2 DEF size
    <3> QED BY <3>1, <1>4, BytesNotNil
  <2>3. SubSeq(v, 1, TxIdSize) = g.tx /\ SubSeq(v, TxIdSize + 1, Len(v)) = b
    BY <1>2, <1>4
  <2>4. ~\E i \in 1..(Len(b) - 2) : b[i] # 0
    <3> DEFINE m == Len(b)
    <3>1. m \in {1, 2}
      BY <1>3
    <3> HIDE DEF m
    <3>2. \A i \in 1..(m - 2) : FALSE
      BY <3>1
    <3> QED BY <3>2 DEF m
  <2>5. GovActionOfText(t) = Ok([tx |-> g.tx, index |-> IndexOf(b)])
    BY <2>1, <2>2, <2>3, <2>4 DEF GovActionOfText
  <2> QED BY <2>5, <1>1, <1>3
<1>9. "format" \notin DOMAIN g
  BY <1>1
<1> QED
  BY <1>4, <1>5, <1>6, <1>7, <1>8, <1>9 DEF t

-----------------------------------------------------------------------------
(* Every identifier *)

\* The address of an identifier, and the format of the others.
LEMMA AddressObjects ==
  ASSUME NEW x \in Identifiers("address")
  PROVE  IsAddress(x) /\ AsCip129(x) = x
<1>1. x \in ShelleyAddresses \/ x \in ByronAddresses
  BY DEF Identifiers
<1>2. IsAddress(x) /\ "format" \notin DOMAIN x
  BY <1>1, ShelleyObjects, ByronObjects DEF IsAddress
<1> QED
  BY <1>2 DEF AsCip129, HasFormat

\* An identifier is found again in its text, with the format of CIP-129.
LEMMA TextKept ==
  ASSUME NEW class \in IdClasses, NEW x \in Identifiers(class), IdText(class, x) # Nil
  PROVE  /\ IdOfText(class, IdText(class, x)) = Ok(AsCip129(x))
         /\ ~IsBytes(IdText(class, x))
<1> DEFINE t == IdText(class, x)
<1>1. CASE class = "address"
  <2>1. IsAddress(x) /\ AsCip129(x) = x
    BY <1>1, AddressObjects
  <2>2. t = AddressText(x)
    BY <1>1 DEF IdText
  <2> HIDE DEF t
  <2>3. AddressText(x) # Nil
    BY <2>2 DEF t
  <2>4. AddressOfText(AddressText(x)) = Ok(x) /\ ~IsBytes(AddressText(x))
    BY <2>1, <2>3, AddressTextReadBack
  <2>5. IdOfText(class, t) = AddressOfText(t)
    BY <1>1 DEF IdOfText
  <2> QED BY <2>1, <2>2, <2>4, <2>5 DEF t
<1>2. CASE class = "action"
  <2>1. x \in Actions
    BY <1>2 DEF Identifiers
  <2>2. t = GovActionText(x) /\ IdOfText(class, t) = GovActionOfText(t)
    BY <1>2 DEF IdText, IdOfText
  <2> HIDE DEF t
  <2>3. GovActionOfText(GovActionText(x)) = Ok(x) /\ "format" \notin DOMAIN x
    BY <2>1, ActionReadBack
  <2>4. GovActionText(x).form = "bech32"
    BY <2>1, ActionReadBack DEF IsTextOf
  <2> QED BY <2>2, <2>3, <2>4 DEF AsCip129, HasFormat, IsBytes, t
<1>3. CASE class = "drep"
  <2>1. x \in DRepIds
    BY <1>3 DEF Identifiers
  <2>2. t = DRepText(x) /\ IdOfText(class, t) = DRepOfText(t)
    BY <1>3 DEF IdText, IdOfText
  <2> HIDE DEF t
  <2>3. /\ DRepOfText(DRepText(x)) = Ok([drep |-> x.drep, credential |-> x.credential, format |-> "cip129"])
        /\ x = [drep |-> x.drep, credential |-> x.credential, format |-> x.format]
        /\ "format" \in DOMAIN x /\ x.drep \in {0, 1, 2, 3}
    BY <2>1, DRepReadBack, DRepObjects
  <2>4. AsCip129(x) = [drep |-> x.drep, credential |-> x.credential, format |-> "cip129"]
    BY <2>3 DEF AsCip129, HasFormat
  <2>5. DRepText(x).form \in {"bech32", "word"}
    <3>1. CASE x.drep \in {0, 1}
      BY <3>1, <2>1, DRepHash, CredentialWritten DEF IsTextOf
    <3>2. CASE x.drep \in {2, 3}
      BY <3>2 DEF DRepText, WordText
    <3> QED BY <2>3, <3>1, <3>2
  <2> QED BY <2>2, <2>3, <2>4, <2>5 DEF IsBytes, t
<1>4. CASE class \in {"cc_hot", "cc_cold", "drep credential"}
  <2> DEFINE gov == GovOf(class)
  <2>1. gov \in Roles /\ x \in GovCredentials(gov)
    BY <1>4 DEF Identifiers, GovOf, Roles
  <2>2. t = CredentialText(x) /\ IdOfText(class, t) = CredentialOfText(gov, t)
    BY <1>4 DEF IdText, IdOfText
  <2> HIDE DEF t, gov
  <2>3. /\ x = [gov |-> gov, credential |-> x.credential, format |-> x.format]
        /\ x.gov = gov /\ IsCredential(x) /\ "format" \in DOMAIN x
    BY <2>1, CredentialObjects
  <2>4. DecodeCredential(gov, t) = Ok(x.credential)
    BY <2>2, <2>3, CredentialReadBack
  <2>5. CredentialOfText(gov, t) = Ok(CredentialRead(gov, x.credential))
    BY <2>4, Outcomes DEF CredentialOfText
  <2>6. AsCip129(x) = [gov |-> gov, credential |-> x.credential, format |-> "cip129"]
    BY <2>3 DEF AsCip129, HasFormat
  <2>7. t.form = "bech32"
    BY <2>2, <2>3, CredentialWritten DEF IsTextOf
  <2> QED BY <2>2, <2>5, <2>6, <2>7 DEF IsBytes, CredentialRead, t
<1> QED
  BY <1>1, <1>2, <1>3, <1>4 DEF IdClasses

\* What was read may be written: it has a text where the identifier had one.
LEMMA ReadWritable ==
  ASSUME NEW class \in IdClasses, NEW x \in Identifiers(class), IdText(class, x) # Nil
  PROVE  /\ AsCip129(x) \in Identifiers(class) /\ AsCip129(AsCip129(x)) = AsCip129(x)
         /\ IdText(class, AsCip129(x)) # Nil
<1> DEFINE y == AsCip129(x)
<1>1. CASE class = "address"
  BY <1>1, AddressObjects
<1>2. CASE class = "action"
  <2>1. x \in Actions
    BY <1>2 DEF Identifiers
  <2>2. y = x
    BY <2>1, ActionReadBack DEF AsCip129, HasFormat
  <2> HIDE DEF y
  <2> QED BY <2>2 DEF y
<1>3. CASE class = "drep"
  <2>1. x \in DRepIds
    BY <1>3 DEF Identifiers
  <2>2. /\ x = [drep |-> x.drep, credential |-> x.credential, format |-> x.format]
        /\ "format" \in DOMAIN x
        /\ \/ x.drep = 0 /\ x.credential \in KeyHashes
           \/ x.drep = 1 /\ x.credential \in ScriptHashes
           \/ x.drep \in {2, 3} /\ x.credential = NoPart
    BY <2>1, DRepObjects
  <2>3. y = [drep |-> x.drep, credential |-> x.credential, format |-> "cip129"]
    BY <2>2 DEF AsCip129, HasFormat
  <2>4. y.drep = x.drep /\ y.credential = x.credential /\ y.format = "cip129" /\ "format" \in DOMAIN y
    BY <2>3
  <2> HIDE DEF y
  <2>5. y \in DRepIds
    BY <2>2, <2>3 DEF DRepIds, Formats
  <2>6. AsCip129(y) = y
    BY <2>3, <2>4 DEF AsCip129, HasFormat
  <2>7. DRepText(y) # Nil
    <3>1. CASE y.drep \in {0, 1}
      BY <3>1, <2>5, DRepHash, CredentialWritten, FormNotNil DEF IsTextOf
    <3>2. CASE y.drep \in {2, 3}
      <4>1. "form" \in DOMAIN DRepText(y)
        BY <3>2 DEF DRepText, WordText
      <4> QED BY <4>1, FormNotNil
    <3> QED BY <2>2, <2>4, <3>1, <3>2
  <2> QED BY <1>3, <2>5, <2>6, <2>7 DEF Identifiers, IdText, y
<1>4. CASE class \in {"cc_hot", "cc_cold", "drep credential"}
  <2> DEFINE gov == GovOf(class)
  <2>1. gov \in Roles /\ x \in GovCredentials(gov)
    BY <1>4 DEF Identifiers, GovOf, Roles
  <2>2. Identifiers(class) = GovCredentials(gov) /\ IdText(class, y) = CredentialText(y)
    BY <1>4 DEF Identifiers, IdText
  <2> HIDE DEF gov
  <2>3. /\ x = [gov |-> gov, credential |-> x.credential, format |-> x.format]
        /\ x.credential \in KeyHashes \cup ScriptHashes /\ "format" \in DOMAIN x
    BY <2>1, CredentialObjects
  <2>4. y = [gov |-> gov, credential |-> x.credential, format |-> "cip129"]
    BY <2>3 DEF AsCip129, HasFormat
  <2>5. y.format = "cip129" /\ "format" \in DOMAIN y
    BY <2>4
  <2> HIDE DEF y
  <2>6. y \in GovCredentials(gov)
    BY <2>3, <2>4 DEF GovCredentials, Formats
  <2>7. AsCip129(y) = y
    BY <2>4, <2>5 DEF AsCip129, HasFormat
  <2>8. CredentialText(y) # Nil
    BY <2>1, <2>6, CredentialObjects, CredentialWritten, FormNotNil DEF IsTextOf
  <2> QED BY <2>2, <2>6, <2>7, <2>8 DEF y
<1> QED
  BY <1>1, <1>2, <1>3, <1>4 DEF IdClasses

\* Only a pointer makes a text too long.
LEMMA HasText ==
  ASSUME NEW class \in IdClasses, NEW x \in Identifiers(class), IdText(class, x) = Nil
  PROVE  /\ class = "address" /\ x.form = "shelley" /\ x.staking.kind = "pointer"
         /\ Len(EncodePointer(x.staking.numbers)) > (IF x.network = 1 THEN 31 ELSE 28)
<1>1. CASE class = "address"
  <2>1. IdText(class, x) = AddressText(x)
    BY <1>1 DEF IdText
  <2>2. CASE x \in ShelleyAddresses
    <3>1. IsShelley(x) /\ x.form = "shelley"
      BY <2>2, ShelleyObjects
    <3>2. AddressText(x) = Bech32(Hrp(x), ShelleyBytes(x))
      BY <3>1 DEF AddressText
    <3>3. ShelleyBytes(x) \in Seq(Octet) /\ HrpSize[Hrp(x)] \in Nat
      BY <3>1, ShelleyReadBack, AddressSize
    <3> DEFINE v == ShelleyBytes(x)
               hrp == Hrp(x)
    <3> HIDE DEF v, hrp
    <3>4. ~IsTextOf(Nil, hrp, v)
      BY FormNotNil DEF IsTextOf
    <3>5. ~(TextSize(hrp, v) <= MaxText)
      BY <2>1, <3>2, <3>3, <3>4, TextReadBack DEF v, hrp
    <3> QED BY <1>1, <3>1, <3>5, AddressSize DEF v, hrp
  <2>3. CASE x \in ByronAddresses
    <3>1. x.form = "byron"
      BY <2>3, ByronObjects
    <3>2. "form" \in DOMAIN AddressText(x)
      BY <3>1 DEF AddressText
    <3> QED BY <2>1, <3>2, FormNotNil
  <2> QED BY <1>1, <2>2, <2>3 DEF Identifiers
<1>2. CASE class = "action"
  <2>1. x \in Actions /\ IdText(class, x) = GovActionText(x)
    BY <1>2 DEF Identifiers, IdText
  <2> QED BY <2>1, ActionReadBack, FormNotNil DEF IsTextOf
<1>3. CASE class = "drep"
  <2>1. x \in DRepIds /\ IdText(class, x) = DRepText(x)
    BY <1>3 DEF Identifiers, IdText
  <2>2. CASE x.drep \in {0, 1}
    BY <2>1, <2>2, DRepHash, CredentialWritten, FormNotNil DEF IsTextOf
  <2>3. CASE x.drep \in {2, 3}
    <3>1. "form" \in DOMAIN DRepText(x)
      BY <2>3 DEF DRepText, WordText
    <3> QED BY <2>1, <3>1, FormNotNil
  <2> QED BY <2>1, <2>2, <2>3, DRepObjects
<1>4. CASE class \in {"cc_hot", "cc_cold", "drep credential"}
  <2>1. GovOf(class) \in Roles /\ x \in GovCredentials(GovOf(class)) /\ IdText(class, x) = CredentialText(x)
    BY <1>4 DEF Identifiers, IdText, GovOf, Roles
  <2> QED BY <2>1, CredentialObjects, CredentialWritten, FormNotNil DEF IsTextOf
<1> QED
  BY <1>1, <1>2, <1>3, <1>4 DEF IdClasses

-----------------------------------------------------------------------------
(* The bytes of other programs *)

\* Bytes that are read are an address; it is written again to the same bytes, but
\* for what is padded and the payload of Byron that is not canonical.
LEMMA BytesRead ==
  ASSUME NEW w, IsWire(w), ~Failed(AddressOfBytes(w))
  PROVE  \E a : /\ AddressOfBytes(w) = Ok(a)
                /\ ~NotCanonical(w) => /\ IsAddress(a)
                                       /\ ~Padded(w) => AddressBytes(a) = w
<1>1. CASE w.form = "octets"
  <2>1. w = Octets(w.octets) /\ w.octets \in Seq(Octet)
    BY <1>1 DEF IsWire, Octets
  <2>2. AddressOfBytes(w) = FromShelley(w.octets)
    BY <1>1 DEF AddressOfBytes
  <2> DEFINE v == w.octets
  <2>3. v \in Seq(Octet) /\ ~Failed(FromShelley(v))
    BY <2>1, <2>2
  <2> HIDE DEF v
  <2>4. PICK a : /\ FromShelley(v) = Ok(a) /\ IsShelley(a)
                 /\ ~Padded(Octets(v)) => ShelleyBytes(a) = v
    BY <2>3, ShelleyRead
  <2>5. AddressBytes(a) = Octets(ShelleyBytes(a))
    BY <2>4 DEF IsShelley, AddressBytes
  <2> QED BY <2>1, <2>2, <2>4, <2>5 DEF IsAddress, v
<1>2. CASE w.form = "array"
  <2>1. /\ w = [form |-> "array", arity |-> w.arity, tag |-> w.tag, payload |-> w.payload, crc |-> w.crc]
        /\ IsByronPayload(w.payload) /\ w.arity \in 0..15
    BY <1>2 DEF IsWire
  <2>2. CASE w.arity = 2 /\ w.tag = 24
    <3>1. AddressOfBytes(w) = FromByronCbor(w)
      BY <1>2, <2>2 DEF AddressOfBytes
    <3>2. PICK b : /\ FromByronCbor(w) = Ok(b) /\ IsByron(b)
                   /\ w.payload.canonical => HasOwnCrc(b) /\ ByronBytes(b) = w
      BY <2>1, <3>1, ByronRead
    <3>3. AddressBytes(b) = ByronBytes(b)
      BY <3>2 DEF IsByron, AddressBytes
    <3> QED BY <1>2, <3>1, <3>2, <3>3 DEF NotCanonical, IsAddress
  <2>3. CASE ~(w.arity = 2 /\ w.tag = 24)
    <3> DEFINE n == w.arity
               v == <<128 + n>>
    <3>1. AddressOfBytes(w) = FromShelley(v)
      BY <1>2, <2>3 DEF AddressOfBytes, ArrayHeader
    <3>2. n \in 0..15 /\ v[1] = 128 + n
      BY <2>1
    <3> HIDE DEF n, v
    <3>3. (128 + n) \div 16 = 8
      BY <3>2
    <3>4. v[1] \div 16 \notin ShelleyTypes
      BY <3>2, <3>3 DEF ShelleyTypes
    <3>5. Failed(FromShelley(v))
      BY <3>4, HeaderRead
    <3> QED BY <3>1, <3>5
  <2> QED BY <2>2, <2>3
<1> QED
  BY <1>1, <1>2 DEF IsWire

\* A wire is bytes.
LEMMA WireIsBytes ==
  ASSUME NEW w, IsWire(w)
  PROVE  IsBytes(w) /\ w # Nil
<1>1. CASE w.form = "octets"
  <2>1. w = [form |-> "octets", octets |-> w.octets]
    BY <1>1 DEF IsWire
  <2>2. "form" \in DOMAIN w
    BY <2>1
  <2> QED BY <1>1, <2>2, FormNotNil DEF IsBytes
<1>2. CASE w.form = "array"
  <2>1. w = [form |-> "array", arity |-> w.arity, tag |-> w.tag, payload |-> w.payload, crc |-> w.crc]
    BY <1>2 DEF IsWire
  <2>2. "form" \in DOMAIN w
    BY <2>1
  <2> QED BY <1>2, <2>2, FormNotNil DEF IsBytes
<1> QED
  BY <1>1, <1>2 DEF IsWire

-----------------------------------------------------------------------------
(* What is written, read and written again *)

\* What the wire is of: an identifier, or bytes of another program.
OwnWire ==
  /\ object \in Identifiers(type)
  /\ \/ wire = IdText(type, object)
     \/ type = "address" /\ wire = AddressBytes(object)
OtherWire == object = Nil /\ type = "address" /\ wire \in OtherBytes

IdInv ==
  /\ type \in IdClasses
  /\ phase \in {"id", "id written", "id read", "id rewritten"}
  /\ phase = "id" => object \in Identifiers(type)
  /\ phase # "id" => OwnWire \/ OtherWire
  /\ phase \in {"id read", "id rewritten"} => wire # Nil /\ got = ReadWire(type, wire)
  /\ phase = "id rewritten" => ~Failed(got) /\ again = WriteLike(wire, type, got.ok)

LEMMA InitId == IdInit \/ OtherInit => IdInv
<1>1. IdInit => IdInv
  BY DEF IdInit, IdInv
<1>2. OtherInit => IdInv
  BY DEF OtherInit, IdInv, OtherWire, IdClasses
<1> QED
  BY <1>1, <1>2

LEMMA NextId == IdInv /\ [IdNext]_idVars => IdInv'
<1> SUFFICES ASSUME IdInv, [IdNext]_idVars PROVE IdInv'
  OBVIOUS
<1>1. CASE WriteId
  BY <1>1 DEF IdInv, WriteId, OwnWire, OtherWire
<1>2. CASE ReadId
  BY <1>2 DEF IdInv, ReadId, OwnWire, OtherWire
<1>3. CASE RewriteId
  BY <1>3 DEF IdInv, RewriteId, OwnWire, OtherWire
<1>4. CASE UNCHANGED idVars
  BY <1>4 DEF IdInv, idVars, OwnWire, OtherWire
<1> QED
  BY <1>1, <1>2, <1>3, <1>4 DEF IdNext

\* Reading comes to what was written, with the format of CIP-129.
LEMMA ReadsOwn ==
  ASSUME type \in IdClasses, OwnWire, wire # Nil
  PROVE  /\ ReadWire(type, wire) = Ok(AsCip129(object))
         /\ ReadWire(type, WriteLike(wire, type, AsCip129(object))) = Ok(AsCip129(object))
         /\ IsBytes(wire) => WriteLike(wire, type, AsCip129(object)) = wire
<1>1. object \in Identifiers(type)
  BY DEF OwnWire
<1>2. CASE wire = IdText(type, object)
  <2> DEFINE y == AsCip129(object)
  <2>1. IdOfText(type, wire) = Ok(y) /\ ~IsBytes(wire)
    BY <1>1, <1>2, TextKept
  <2>2. y \in Identifiers(type) /\ AsCip129(y) = y /\ IdText(type, y) # Nil
    BY <1>1, <1>2, ReadWritable
  <2> HIDE DEF y
  <2>3. IdOfText(type, IdText(type, y)) = Ok(y) /\ ~IsBytes(IdText(type, y))
    BY <2>2, TextKept
  <2> QED BY <2>1, <2>3 DEF ReadWire, WriteLike, y
<1>3. CASE type = "address" /\ wire = AddressBytes(object)
  <2>1. IsAddress(object) /\ AsCip129(object) = object
    BY <1>1, <1>3, AddressObjects
  <2>2. AddressOfBytes(wire) = Ok(object) /\ IsBytes(wire)
    BY <1>3, <2>1, AddressBytesReadBack
  <2>3. WriteLike(wire, type, object) = wire
    BY <1>3, <2>2 DEF WriteLike
  <2> QED BY <2>1, <2>2, <2>3 DEF ReadWire
<1> QED
  BY <1>2, <1>3 DEF OwnWire

LEMMA KeptIfInv == IdInv => IdentifierKept
<1> SUFFICES ASSUME IdInv PROVE IdentifierKept
  OBVIOUS
<1>1. ASSUME wire = Nil, phase = "id written"
      PROVE  Oversized(object)
  <2>1. CASE OtherWire
    <3>1. IsWire(wire)
      BY <2>1, Assumed DEF OtherWire
    <3>2. wire # Nil
      BY <3>1, WireIsBytes
    <3> QED BY <1>1, <3>2
  <2>2. CASE OwnWire
    <3>1. object \in Identifiers(type) /\ type \in IdClasses
      BY <2>2 DEF OwnWire, IdInv
    <3>2. CASE wire = IdText(type, object)
      BY <1>1, <3>1, <3>2, HasText DEF Oversized
    <3>3. CASE type = "address" /\ wire = AddressBytes(object)
      BY <1>1, <3>1, <3>3, AddressObjects, AddressBytesReadBack
    <3> QED BY <2>2, <3>2, <3>3 DEF OwnWire
  <2> QED BY <1>1, <2>1, <2>2 DEF IdInv
<1>2. ASSUME phase \in {"id read", "id rewritten"}, object # Nil
      PROVE  got = Ok(AsCip129(object))
  <2>1. OwnWire /\ wire # Nil /\ type \in IdClasses /\ got = ReadWire(type, wire)
    BY <1>2 DEF IdInv, OtherWire
  <2> QED BY <2>1, ReadsOwn
<1>3. ASSUME phase = "id rewritten", ~NotCanonical(wire)
      PROVE  /\ ReadWire(type, again) = got
             /\ IsBytes(wire) /\ ~Padded(wire) => again = wire
  <2>1. /\ OwnWire \/ OtherWire
        /\ wire # Nil /\ type \in IdClasses /\ got = ReadWire(type, wire) /\ ~Failed(got)
        /\ again = WriteLike(wire, type, got.ok)
    BY <1>3 DEF IdInv
  <2>2. CASE OwnWire
    <3>1. got = Ok(AsCip129(object)) /\ got.ok = AsCip129(object)
      BY <2>1, <2>2, ReadsOwn, Outcomes
    <3> QED BY <2>1, <2>2, <3>1, ReadsOwn
  <2>3. CASE OtherWire
    <3>1. type = "address" /\ IsWire(wire)
      BY <2>3, Assumed DEF OtherWire
    <3>2. IsBytes(wire)
      BY <3>1, WireIsBytes
    <3>3. got = AddressOfBytes(wire)
      BY <2>1, <3>2 DEF ReadWire
    <3>4. PICK a : /\ AddressOfBytes(wire) = Ok(a)
                   /\ ~NotCanonical(wire) => /\ IsAddress(a)
                                             /\ ~Padded(wire) => AddressBytes(a) = wire
      BY <2>1, <3>1, <3>3, BytesRead
    <3>5. got = Ok(a) /\ got.ok = a /\ IsAddress(a) /\ (~Padded(wire) => AddressBytes(a) = wire)
      BY <1>3, <3>3, <3>4, Outcomes
    <3>6. again = AddressBytes(a)
      BY <2>1, <3>2, <3>5 DEF WriteLike
    <3>7. AddressOfBytes(again) = Ok(a) /\ IsBytes(again)
      BY <3>5, <3>6, AddressBytesReadBack
    <3> QED BY <3>5, <3>6, <3>7 DEF ReadWire
  <2> QED BY <2>1, <2>2, <2>3
<1> QED
  BY <1>1, <1>2, <1>3 DEF IdentifierKept

\* Every identifier has a text, unless a pointer makes it too long, and is read back
\* from it; bytes of an address that are accepted are written again unchanged, and
\* padded pointers to bytes that are read as the same address (Address.from_primitive,
\* GovernanceCredential.decode, DRep.decode and GovActionId.decode).
THEOREM KeptTheorem == IdSpec => []IdentifierKept
<1>1. IdSpec => []IdInv
  BY InitId, NextId, PTL DEF IdSpec
<1> QED
  BY <1>1, KeptIfInv, PTL

-----------------------------------------------------------------------------
(* What is read by its own class only *)

\* The sizes of the bytes of an address that can be read.
LEMMA ReadSizes ==
  ASSUME NEW v \in Seq(Octet), ~Failed(FromShelley(v))
  PROVE  /\ v[1] % 16 \in {0, 1}
         /\ Len(v) = 29 \/ Len(v) = 57 \/ v[1] \in {64, 65, 80, 81}
         /\ Len(v) # 28
<1> DEFINE n == v[1] \div 16
           net == v[1] % 16
           payload == Tail(v)
           k == PaymentKind(n)
           l == StakingKind(n)
           at == Split(n, payload)
           p == SubSeq(payload, 1, at)
           q == SubSeq(payload, at + 1, Len(payload))
           m == Len(payload)
           size == Len(v)
<1>1. v # <<>> /\ n \in ShelleyTypes /\ net \in {0, 1} /\ FromShelley(v) = FromParts(n, net, payload)
  BY HeaderRead
<1>2. v[1] \in Octet /\ payload \in Seq(Octet) /\ m = size - 1 /\ m \in Nat /\ size \in Nat
  <2>1. v[1] \in Octet /\ payload \in Seq(Octet) /\ Len(payload) = size - 1
    BY <1>1, HeadAndTail
  <2> HIDE DEF payload
  <2> QED BY <2>1, OctetsOf
<1>3. ~Failed(Part(l, q)) /\ ~Failed(Part(k, p))
  <2> DEFINE a == [form |-> "shelley", payment |-> Part(k, p).ok, staking |-> Part(l, q).ok, network |-> net]
  <2>1. FromParts(n, net, payload) = IF Failed(Part(l, q)) THEN Part(l, q)
                                     ELSE IF Failed(Part(k, p)) THEN Part(k, p) ELSE Ok(a)
    <3> HIDE DEF a, p, q, k, l, payload, n, net
    <3> QED BY DEF FromParts, p, q, k, l, a
  <2> HIDE DEF a, p, q, k, l, payload, n, net
  <2> QED BY <1>1, <2>1
<1>4. AddressKinds(k, l)
  BY <1>1, KindsOfType
<1>5. at = IF k = "nil" THEN 0 ELSE IF l = "nil" \/ m < HashSize THEN m ELSE HashSize
  BY DEF Split
<1>6. Len(p) = at /\ Len(q) = m - at
  <2>1. at \in 0..m
    <3> HIDE DEF at, m, k, l
    <3> QED BY <1>2, <1>5 DEF HashSize
  <2> HIDE DEF at, payload
  <2> QED BY <1>2, <2>1, SlicesJoined
<1>7. /\ k \in {"key", "script"} => Len(p) = 28
      /\ l \in {"key", "script"} => Len(q) = 28
      /\ l = "nil" => Len(q) = 0
  <2>1. k \in {"key", "script"} => Len(p) = 28
    BY <1>3, Outcomes DEF Part, HashSize
  <2>2. l \in {"key", "script"} => Len(q) = 28
    BY <1>3, Outcomes DEF Part, HashSize
  <2>3. l = "nil" => Len(q) = 0
    <3>1. l = "nil" => q = <<>>
      BY <1>3, Outcomes DEF Part
    <3> HIDE DEF q
    <3> QED BY <3>1
  <2> QED BY <2>1, <2>2, <2>3
<1>8. l = "pointer" => n \in {4, 5}
  BY DEF StakingKind
<1>9. /\ m = 28 \/ m = 56 \/ l = "pointer"
      /\ m # 27
  <2> DEFINE x == Len(p)
             y == Len(q)
  <2>1. x = at /\ y = m - at /\ m \in Nat
    BY <1>2, <1>6
  <2>2. /\ k \in {"key", "script"} => x = 28
        /\ l \in {"key", "script"} => y = 28
        /\ l = "nil" => y = 0
    BY <1>7
  <2> HIDE DEF x, y, at, m, k, l
  <2>3. at \in Nat
    BY <1>2, <1>5 DEF HashSize
  <2>4. CASE k = "nil"
    <3>1. at = 0 /\ y = 28
      BY <2>2, <2>4, <1>4, <1>5 DEF AddressKinds
    <3> QED BY <3>1, <2>1
  <2>5. CASE k \in {"key", "script"}
    <3>1. x = 28 /\ l \in PartKinds
      BY <2>2, <2>5, <1>4 DEF AddressKinds
    <3>2. m # 27
      <4>1. at \in {m, HashSize} /\ (m < HashSize => at = m)
        BY <2>5, <1>5
      <4> QED BY <3>1, <4>1, <2>1 DEF HashSize
    <3>3. CASE l = "pointer"
      BY <3>2, <3>3
    <3>4. CASE l = "nil"
      BY <3>1, <3>2, <3>4, <2>1, <2>2
    <3>5. CASE l \in {"key", "script"}
      BY <3>1, <3>2, <3>5, <2>1, <2>2
    <3> QED BY <3>1, <3>3, <3>4, <3>5 DEF PartKinds
  <2> QED BY <2>4, <2>5, <1>4 DEF AddressKinds
<1>10. n \in {4, 5} => v[1] \in {64, 65, 80, 81}
  <2> DEFINE h == v[1]
  <2>1. h \in 0..255 /\ h % 16 \in {0, 1}
    BY <1>1, <1>2 DEF Octet
  <2> HIDE DEF h
  <2>2. h \div 16 \in {4, 5} => h \in {64, 65, 80, 81}
    BY <2>1
  <2> QED BY <2>2 DEF h
<1> HIDE DEF m, size
<1>11. size = 29 \/ size = 57 \/ l = "pointer"
  BY <1>2, <1>9
<1>12. size # 28
  BY <1>2, <1>9
<1> QED
  BY <1>1, <1>8, <1>10, <1>11, <1>12 DEF size

\* What is no text of bech32 is no credential and no action, and unless it is base58
\* no address.
LEMMA NoBech32 ==
  ASSUME NEW t, t.form # "bech32"
  PROVE  /\ \A gov : Failed(DecodeCredential(gov, t))
         /\ Failed(GovActionOfText(t))
         /\ t.form # "base58" => Failed(AddressOfText(t))
<1>1. BytesOfText(t) = Nil
  BY DEF BytesOfText, IsBech32
<1> QED
  BY <1>1, Outcomes DEF DecodeCredential, GovActionOfText, AddressOfText

\* The readers of credentials and DReps take the sizes and headers of their own.
LEMMA NoCredential ==
  ASSUME NEW t, NEW gov \in Roles, NEW v \in Seq(Octet), BytesOfText(t) = v, Len(v) \in Nat, Len(v) # HashSize,
         Len(v) = Cip129Size => (v[1] % 16 \notin {2, 3} \/ v[1] \div 16 # KeyTypes[gov])
  PROVE  Failed(DecodeCredential(gov, t))
<1>1. CASE Len(v) = Cip129Size
  <2>1. Failed(Cip129(gov, v))
    BY <1>1, Outcomes DEF Cip129
  <2> QED BY <1>1, <2>1, Outcomes DEF DecodeCredential
<1>2. CASE Len(v) # Cip129Size
  BY <1>2, Outcomes DEF DecodeCredential
<1> QED
  BY <1>1, <1>2

LEMMA NoReader ==
  ASSUME NEW t, NEW c \in IdClasses \ {"address", "action"}, t.form # "word",
         \A gov \in Roles : gov = GovOf(c) => Failed(DecodeCredential(gov, t))
  PROVE  Failed(IdOfText(c, t))
<1>1. GovOf(c) \in Roles
  BY DEF GovOf, Roles, IdClasses
<1>2. Failed(DecodeCredential(GovOf(c), t))
  BY <1>1
<1>3. CASE c = "drep"
  <2>1. Failed(DecodeCredential("drep", t))
    BY <1>2, <1>3 DEF GovOf
  <2>2. t # WordText("drep_always_abstain") /\ t # WordText("drep_always_no_confidence")
    BY DEF WordText
  <2>3. Failed(DRepOfText(t))
    BY <2>1, <2>2 DEF DRepOfText
  <2> QED BY <1>3, <2>3 DEF IdOfText
<1>4. CASE c # "drep"
  <2>1. IdOfText(c, t) = CredentialOfText(GovOf(c), t)
    BY <1>4 DEF IdOfText
  <2> QED BY <1>2, <2>1 DEF CredentialOfText
<1> QED
  BY <1>3, <1>4

\* The text of a credential is read as a credential, and with the format of CIP-129
\* as one of the same role.
LEMMA CredentialTaken ==
  ASSUME NEW x, IsCredential(x), NEW c \in IdClasses, ~Failed(IdOfText(c, CredentialText(x)))
  PROVE  c \notin {"address", "action"} /\ (x.format = "cip105" \/ GovOf(c) = x.gov)
<1> DEFINE t == CredentialText(x)
           v == CredentialBytes(x)
<1>1. /\ v \in Seq(Octet) /\ BytesOfText(t) = v /\ t.form = "bech32" /\ t.hrp # "gov_action"
      /\ x.format = "cip105" => Len(v) = HashSize
      /\ x.format = "cip129" =>
           Len(v) = Cip129Size /\ v[1] \div 16 = KeyTypes[x.gov] /\ v[1] % 16 \in {2, 3}
  BY CredentialWritten DEF IsTextOf
<1>2. x.format \in {"cip105", "cip129"} /\ x.gov \in Roles
  BY DEF IsCredential, Formats
<1> HIDE DEF t, v
<1>3. c # "address"
  <2>1. Failed(FromShelley(v))
    <3>1. v[1] % 16 \notin {0, 1} \/ Len(v) = 28
      BY <1>1, <1>2 DEF HashSize
    <3> QED BY <1>1, <3>1, ReadSizes
  <2>2. Failed(AddressOfText(t))
    BY <1>1, <2>1, Outcomes DEF AddressOfText
  <2> QED BY <2>2 DEF IdOfText, t
<1>4. c # "action"
  <2>1. Failed(GovActionOfText(t))
    BY <1>1, Outcomes DEF GovActionOfText
  <2> QED BY <2>1 DEF IdOfText, t
<1>5. ASSUME x.format = "cip129", GovOf(c) # x.gov
      PROVE  FALSE
  <2>1. GovOf(c) \in Roles
    BY <1>3, <1>4 DEF GovOf, Roles, IdClasses
  <2>2. KeyTypes[GovOf(c)] # KeyTypes[x.gov]
    BY <1>2, <1>5, <2>1 DEF KeyTypes, Roles
  <2>3. Len(v) \in Nat /\ Len(v) # HashSize
    <3>1. Len(v) = 29
      BY <1>1, <1>5 DEF Cip129Size
    <3> QED BY <3>1 DEF HashSize
  <2> DEFINE gov == GovOf(c)
  <2>4. v[1] \div 16 # KeyTypes[gov]
    BY <1>1, <1>5, <2>2
  <2>5. gov \in Roles
    BY <2>1
  <2> HIDE DEF gov
  <2>6. Failed(DecodeCredential(gov, t))
    BY <1>1, <2>3, <2>4, <2>5, NoCredential
  <2>7. t.form # "word" /\ c \in IdClasses \ {"address", "action"}
    BY <1>1, <1>3, <1>4
  <2>8. \A g \in Roles : g = GovOf(c) => Failed(DecodeCredential(g, t))
    BY <2>6 DEF gov
  <2>9. Failed(IdOfText(c, t))
    BY <2>7, <2>8, NoReader
  <2> QED BY <2>9 DEF t
<1> QED
  BY <1>2, <1>3, <1>4, <1>5

\* The text of an address is read as nothing else.
LEMMA AddressTaken ==
  ASSUME NEW a, IsAddress(a), AddressText(a) # Nil, NEW c \in IdClasses \ {"address"}
  PROVE  Failed(IdOfText(c, AddressText(a)))
<1> DEFINE t == AddressText(a)
<1>1. CASE IsShelley(a)
  <2> DEFINE v == ShelleyBytes(a)
             hrp == Hrp(a)
  <2>1. a.form = "shelley"
    BY <1>1 DEF IsShelley
  <2>2. t = Bech32(hrp, v)
    BY <2>1 DEF AddressText
  <2>3. v \in Seq(Octet) /\ v[1] % 16 \in {0, 1}
    BY <1>1, ShelleyReadBack
  <2>4. HrpSize[hrp] \in Nat /\ hrp # "gov_action" /\ (Len(v) = 29 \/ Len(v) = 57 \/ Len(v) >= 32)
    BY <1>1, AddressSize
  <2> HIDE DEF v, t, hrp
  <2>5. IsTextOf(t, hrp, v)
    BY <2>2, <2>3, <2>4, TextReadBack DEF t
  <2>6. t.form = "bech32" /\ t.hrp # "gov_action" /\ BytesOfText(t) = v
    BY <2>4, <2>5 DEF IsTextOf
  <2>7. Len(v) \in Nat /\ Len(v) # HashSize
    <3> DEFINE size == Len(v)
    <3>1. size \in Nat /\ (size = 29 \/ size = 57 \/ size >= 32)
      BY <2>3, <2>4, OctetsOf
    <3> HIDE DEF size
    <3>2. size # HashSize
      BY <3>1 DEF HashSize
    <3> QED BY <3>1, <3>2 DEF size
  <2>8. v[1] % 16 \notin {2, 3}
    <3> DEFINE low == v[1] % 16
    <3>1. low \in {0, 1}
      BY <2>3
    <3> HIDE DEF low
    <3>2. low \notin {2, 3}
      BY <3>1
    <3> QED BY <3>2 DEF low
  <2>9. \A gov \in Roles : Failed(DecodeCredential(gov, t))
    BY <2>3, <2>6, <2>7, <2>8, NoCredential
  <2>10. CASE c = "action"
    <3>1. Failed(GovActionOfText(t))
      BY <2>6, Outcomes DEF GovActionOfText
    <3> QED BY <2>10, <3>1 DEF IdOfText, t
  <2>11. CASE c # "action"
    <3>1. c \in IdClasses \ {"address", "action"} /\ t.form # "word"
      BY <2>6, <2>11
    <3>2. Failed(IdOfText(c, t))
      BY <2>9, <3>1, NoReader
    <3> QED BY <3>2 DEF t
  <2> QED BY <2>10, <2>11
<1>2. CASE IsByron(a) /\ HasOwnCrc(a)
  <2>1. a.form = "byron"
    BY <1>2 DEF IsByron
  <2>2. t.form = "base58"
    BY <2>1 DEF AddressText
  <2> HIDE DEF t
  <2>3. (\A gov : Failed(DecodeCredential(gov, t))) /\ Failed(GovActionOfText(t)) /\ t.form # "word"
    BY <2>2, NoBech32
  <2>4. CASE c = "action"
    BY <2>3, <2>4 DEF IdOfText, t
  <2>5. CASE c # "action"
    <3>1. c \in IdClasses \ {"address", "action"}
      BY <2>5
    <3>2. Failed(IdOfText(c, t))
      BY <2>3, <3>1, NoReader
    <3> QED BY <3>2 DEF t
  <2> QED BY <2>4, <2>5
<1> QED
  BY <1>1, <1>2 DEF IsAddress

\* The id of a governance action is read as an address only, and only where its first
\* byte is the header of a pointer.
LEMMA ActionTaken ==
  ASSUME NEW g \in Actions, NEW c \in IdClasses \ {"action"}, ~Failed(IdOfText(c, GovActionText(g)))
  PROVE  c = "address" /\ g.tx[1] \in {64, 65, 80, 81}
<1> DEFINE t == GovActionText(g)
<1>1. PICK v \in Seq(Octet) : IsTextOf(t, "gov_action", v) /\ Len(v) \in {33, 34} /\ v[1] = g.tx[1]
  BY ActionReadBack
<1>2. t.form = "bech32" /\ BytesOfText(t) = v
  BY <1>1 DEF IsTextOf
<1> HIDE DEF t
<1> DEFINE size == Len(v)
<1>3. size \in {33, 34}
  BY <1>1
<1> HIDE DEF size
<1>4. size \in Nat /\ size # HashSize /\ size # Cip129Size /\ size # 28 /\ size # 29 /\ size # 57
  BY <1>3 DEF HashSize, Cip129Size
<1>5. \A gov \in Roles : Failed(DecodeCredential(gov, t))
  BY <1>2, <1>4, NoCredential DEF size
<1>6. c = "address"
  <2>1. ASSUME c # "address" PROVE FALSE
    <3>1. c \in IdClasses \ {"address", "action"} /\ t.form # "word"
      BY <1>2, <2>1
    <3>2. Failed(IdOfText(c, t))
      BY <1>5, <3>1, NoReader
    <3> QED BY <3>2 DEF t
  <2> QED BY <2>1
<1>7. ~Failed(AddressOfText(t))
  BY <1>6 DEF IdOfText, t
<1>8. ~Failed(FromShelley(v))
  BY <1>2, <1>7, Outcomes DEF AddressOfText
<1>9. v[1] \in {64, 65, 80, 81}
  BY <1>4, <1>8, ReadSizes DEF size
<1> QED
  BY <1>1, <1>6, <1>9

LEMMA MistakenIfInv == IdInv => NotMistaken
<1>0. \A w \in OtherBytes : IsWire(w) /\ IsBytes(w)
  BY Assumed, WireIsBytes
<1> SUFFICES ASSUME IdInv, phase = "id written", wire # Nil, ~IsBytes(wire),
                    NEW c \in IdClasses \ {type}, ~Failed(IdOfText(c, wire))
             PROVE  \/ {c, type} = {"drep", "drep credential"}
                    \/ c # "address" /\ HasFormat(object) /\ object.format = "cip105"
                    \/ type = "action" /\ c = "address" /\ object.tx[1] \in {64, 65, 80, 81}
  BY DEF NotMistaken
<1>1. OwnWire /\ type \in IdClasses
  <2>1. ~OtherWire
    <3>1. ASSUME OtherWire PROVE FALSE
      <4>1. wire \in OtherBytes
        BY <3>1 DEF OtherWire
      <4> QED BY <4>1, <1>0
    <3> QED BY <3>1
  <2> QED BY <2>1 DEF IdInv
<1>2. object \in Identifiers(type) /\ wire = IdText(type, object)
  <2>1. object \in Identifiers(type)
    BY <1>1 DEF OwnWire
  <2>2. ~(type = "address" /\ wire = AddressBytes(object))
    <3>1. ASSUME type = "address", wire = AddressBytes(object) PROVE FALSE
      BY <2>1, <3>1, AddressObjects, AddressBytesReadBack
    <3> QED BY <3>1
  <2> QED BY <1>1, <2>1, <2>2 DEF OwnWire
<1>3. CASE type = "address"
  <2>1. IsAddress(object) /\ wire = AddressText(object)
    BY <1>2, <1>3, AddressObjects DEF IdText
  <2> QED BY <1>3, <2>1, AddressTaken
<1>4. CASE type = "action"
  <2>1. object \in Actions /\ wire = GovActionText(object)
    BY <1>2, <1>4 DEF Identifiers, IdText
  <2>2. c \in IdClasses \ {"action"} /\ ~Failed(IdOfText(c, GovActionText(object)))
    BY <1>4, <2>1
  <2>3. c = "address" /\ object.tx[1] \in {64, 65, 80, 81}
    BY <2>1, <2>2, ActionTaken
  <2> QED BY <1>4, <2>3
<1>5. CASE type \in {"cc_hot", "cc_cold", "drep credential"}
  <2>1. GovOf(type) \in Roles /\ object \in GovCredentials(GovOf(type)) /\ wire = CredentialText(object)
    BY <1>2, <1>5 DEF Identifiers, IdText, GovOf, Roles
  <2>2. IsCredential(object) /\ object.gov = GovOf(type) /\ "format" \in DOMAIN object
    BY <2>1, CredentialObjects
  <2>3. c \notin {"address", "action"} /\ (object.format = "cip105" \/ GovOf(c) = GovOf(type))
    BY <2>1, <2>2, CredentialTaken
  <2>4. GovOf(c) = GovOf(type) => {c, type} = {"drep", "drep credential"}
    BY <1>5, <2>3 DEF GovOf, IdClasses
  <2> QED BY <2>2, <2>3, <2>4 DEF HasFormat
<1>6. CASE type = "drep"
  <2>1. object \in DRepIds /\ wire = DRepText(object)
    BY <1>2, <1>6 DEF Identifiers, IdText
  <2>2. "format" \in DOMAIN object /\ object.drep \in {0, 1, 2, 3}
    BY <2>1, DRepObjects
  <2>3. CASE object.drep \in {0, 1}
    <3> DEFINE x == CredentialOfDRep(object)
    <3>1. IsCredential(x) /\ x.gov = "drep" /\ x.format = object.format /\ wire = CredentialText(x)
      BY <2>1, <2>3, DRepHash
    <3> HIDE DEF x
    <3>2. c \notin {"address", "action"} /\ (object.format = "cip105" \/ GovOf(c) = "drep")
      BY <3>1, CredentialTaken
    <3>3. GovOf(c) = "drep" => {c, type} = {"drep", "drep credential"}
      BY <1>6 DEF GovOf, IdClasses
    <3> QED BY <2>2, <3>2, <3>3 DEF HasFormat
  <2>4. CASE object.drep \in {2, 3}
    <3>1. wire.form = "word"
      BY <2>1, <2>4 DEF DRepText, WordText
    <3>2. (\A gov : Failed(DecodeCredential(gov, wire))) /\ Failed(GovActionOfText(wire)) /\ Failed(AddressOfText(wire))
      BY <3>1, NoBech32
    <3>3. Failed(CredentialOfText(GovOf(c), wire))
      BY <3>2 DEF CredentialOfText
    <3>4. FALSE
      BY <1>6, <3>2, <3>3 DEF IdOfText
    <3> QED BY <3>4
  <2> QED BY <2>2, <2>3, <2>4
<1> QED
  BY <1>1, <1>3, <1>4, <1>5, <1>6 DEF IdClasses

\* A text is read by its own class only, but for the texts of CIP-105 and the ids of
\* governance actions that begin like an address with a pointer (the readers ignore
\* the prefix: Address.from_primitive, GovernanceCredential.decode, DRep.decode).
THEOREM NotMistakenTheorem == IdSpec => []NotMistaken
<1>1. IdSpec => []IdInv
  BY InitId, NextId, PTL DEF IdSpec
<1> QED
  BY <1>1, MistakenIfInv, PTL
=============================================================================
