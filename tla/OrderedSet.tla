------------------------------ MODULE OrderedSet ------------------------------
(***************************************************************************)
(* OrderedSet of serialization.py: a list of items and a dictionary from   *)
(* the CBOR of an item to its index in the list.  Membership is decided by *)
(* the dictionary, iteration and equality by the list.                     *)
(*                                                                         *)
(* An item is an object with a content, its CBOR.  The dictionary holds    *)
(* the content at the time of insertion; the owner of an item that is not  *)
(* frozen may change it afterwards.                                        *)
(***************************************************************************)
EXTENDS Integers, Sequences

CONSTANTS
  Items,      \* the objects
  Contents,   \* what they serialise to
  MaxLength   \* bound: length of the iterables given to extend

ASSUME LengthAssumption == MaxLength \in Nat

VARIABLES
  content,    \* content[x]: dumps(x)
  list,       \* _list
  dict,       \* _dict: the index of a content in list, 0 where it has no key
  pending,    \* what extend has yet to append
  source,     \* the keys of the set that the running construction copies
  frozen      \* the items are frozen: their content never changes

vars == <<content, list, dict, pending, source, frozen>>

NoKeys == [k \in Contents |-> 0]

\* The keys in the order of their indices.
Keys == [i \in 1..Len(list) |-> CHOOSE k \in Contents : dict[k] = i]

\* `item in self`
Contains(x) == dict[content[x]] # 0

Idle == pending = <<>>

-----------------------------------------------------------------------------

\* append: an item whose content is there is not added again.
Insert(x) ==
  IF Contains(x)
  THEN UNCHANGED <<list, dict>>
  ELSE /\ list' = Append(list, x)
       /\ dict' = [dict EXCEPT ![content[x]] = Len(list) + 1]

AppendItem(x) ==
  /\ Idle
  /\ Insert(x)
  /\ UNCHANGED <<content, pending, source, frozen>>

\* extend: append, item by item.
Extend(xs) ==
  /\ Idle
  /\ xs # <<>>
  /\ pending' = xs
  /\ UNCHANGED <<content, list, dict, source, frozen>>

AppendNext ==
  /\ ~Idle
  /\ Insert(Head(pending))
  /\ pending' = Tail(pending)
  /\ source' = IF Tail(pending) = <<>> THEN <<>> ELSE source
  /\ UNCHANGED <<content, frozen>>

\* remove: the indices behind the removed one move down.
RemoveAt(s, i) == [j \in 1..(Len(s) - 1) |-> IF j < i THEN s[j] ELSE s[j + 1]]

\* Mutant: the other indices stay.
RemoveUnshifted(x) ==
  LET index == dict[content[x]]
  IN  /\ Idle
      /\ Contains(x)
      /\ list' = RemoveAt(list, index)
      /\ dict' = [dict EXCEPT ![content[x]] = 0]
      /\ UNCHANGED <<content, pending, source, frozen>>

Remove(x) ==
  LET index == dict[content[x]]
  IN  /\ Idle
      /\ Contains(x)
      /\ list' = RemoveAt(list, index)
      /\ dict' = [k \in Contents |->
                    IF k = content[x] THEN 0
                    ELSE IF dict[k] > index THEN dict[k] - 1 ELSE dict[k]]
      /\ UNCHANGED <<content, pending, source, frozen>>

\* Mutant: the copy starts with the keys of the original.
RebuildWithKeys ==
  /\ Idle
  /\ list # <<>>
  /\ source' = Keys
  /\ pending' = list
  /\ list' = <<>>
  /\ UNCHANGED <<content, dict, frozen>>

\* __deepcopy__ and from_primitive: a new set is built from the list of the old
\* one, and the program goes on with the new one.
Rebuild ==
  /\ Idle
  /\ list # <<>>
  /\ source' = Keys
  /\ pending' = list
  /\ list' = <<>>
  /\ dict' = NoKeys
  /\ UNCHANGED <<content, frozen>>

\* The owner of an item changes it.
Mutate(x, k) ==
  /\ ~frozen
  /\ Idle
  /\ content' = [content EXCEPT ![x] = k]
  /\ UNCHANGED <<list, dict, pending, source, frozen>>

-----------------------------------------------------------------------------

Init ==
  /\ content \in [Items -> Contents]
  /\ list = <<>>
  /\ dict = NoKeys
  /\ pending = <<>>
  /\ source = <<>>
  /\ frozen \in BOOLEAN

\* The iterables given to extend.
Iterables == UNION {[1..n -> Items] : n \in 1..MaxLength}

Next ==
  \/ \E x \in Items : AppendItem(x) \/ Remove(x)
  \/ \E xs \in Iterables : Extend(xs)
  \/ AppendNext
  \/ Rebuild
  \/ \E x \in Items, k \in Contents : Mutate(x, k)

Spec == Init /\ [][Next]_vars

-----------------------------------------------------------------------------
(* Properties *)

\* Every variable of the set keeps its type.
TypeOK ==
  /\ content \in [Items -> Contents]
  /\ list \in Seq(Items)
  /\ dict \in [Contents -> Nat]
  /\ pending \in Seq(Items)
  /\ source \in Seq(Contents)
  /\ frozen \in BOOLEAN

\* The dictionary numbers the positions of the list, each once, whatever
\* happens to the items: remove finds an item to remove at the index it looks
\* up (serialization.py:1163-1171).
IndexBijective ==
  /\ \A k \in Contents : dict[k] <= Len(list)
  /\ \A i \in 1..Len(list) : \E k \in Contents : dict[k] = i
  /\ \A k, l \in Contents : dict[k] = dict[l] /\ dict[k] # 0 => k = l

\* While no item changes, each item stands where the dictionary says, so that
\* `in`, which asks the dictionary, and iteration, which reads the list, agree
\* (serialization.py:1152-1177).
KeysMatch == frozen => \A i \in 1..Len(list) : dict[content[list[i]]] = i

\* No content of frozen items is in the list twice
\* (test_serialization.py:604-606).
NoTwins ==
  frozen =>
    \A i, j \in 1..Len(list) : content[list[i]] = content[list[j]] => i = j

SetInv == TypeOK /\ IndexBijective /\ KeysMatch

\* The set as its user sees it: a new set exists when it is complete.
Members == IF source # <<>> THEN source ELSE Keys

Abstract == INSTANCE UniqueSequence WITH members <- Members, stable <- frozen

\* For its user OrderedSet is a sequence without repetitions: append, remove,
\* and copies that arrive whole and, of frozen items, are equal
\* (serialization.py:1152-1171, 1237-1238).
ImplementsUniqueSequence == Abstract!Spec

=============================================================================
