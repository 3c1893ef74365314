---------------------------- MODULE UniqueSequence ----------------------------
(***************************************************************************)
(* What a user of OrderedSet (serialization.py:1137) counts on: a sequence *)
(* of contents in the order of their first insertion, none of them twice.  *)
(* A copy of it is equal, unless the items may change on their own.        *)
(***************************************************************************)
EXTENDS Sequences, Integers

CONSTANT Contents

VARIABLES
  members,
  stable     \* the items never change

vars == <<members, stable>>

Has(k) == \E i \in 1..Len(members) : members[i] = k

Init == members = <<>> /\ stable \in BOOLEAN

Add == \E k \in Contents : ~Has(k) /\ members' = Append(members, k) /\ stable' = stable

\* The others close up.
Remove ==
  /\ stable' = stable
  /\ \E i \in 1..Len(members) :
       members' = [j \in 1..(Len(members) - 1) |->
                     IF j < i THEN members[j] ELSE members[j + 1]]

\* A copy of items that have changed: those that became alike are one.
Distinct(s) == \A i, j \in 1..Len(s) : s[i] = s[j] => i = j
Renew ==
  /\ ~stable
  /\ members' \in UNION {[1..n -> Contents] : n \in 0..Len(members)}
  /\ Distinct(members')
  /\ stable' = stable

Next == Add \/ Remove \/ Renew

Spec == Init /\ [][Next]_vars

=============================================================================
