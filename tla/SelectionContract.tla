-------------------------- MODULE SelectionContract --------------------------
(***************************************************************************)
(* What UTxOSelector.select promises its caller (coinselection.py:42-69):  *)
(* it returns a subset of the UTxOs that, with the existing amount, is     *)
(* worth at least the request, and the difference as change; or it raises, *)
(* and then nothing is returned.  How the subset is found is left open.    *)
(*                                                                         *)
(* A chain of selectors promises less: one that raised leaves what it had  *)
(* taken in the existing amount of the next (txbuilder.py:1416-1437).      *)
(***************************************************************************)
EXTENDS Values

CONSTANTS UTxOs, Amount

VARIABLES
  request,   \* the outputs and, if asked for, the maximal fee
  existing,  \* existing_amount of the selector that runs
  pool,      \* the UTxOs to choose from
  outcome,   \* "pending", "selected" or "raised"
  selected,  \* the UTxOs returned
  change     \* the change returned

vars == <<request, existing, pool, outcome, selected, change>>

\* What there is to pay with if the UTxOs of S are spent.
Funds(S) ==
  [k \in Kinds |-> existing[k] + Total([u \in S |-> Amount[u][k]], S)]

Init ==
  /\ request \in Amounts
  /\ existing \in Amounts
  /\ pool \in SUBSET UTxOs
  /\ outcome = "pending"
  /\ selected = {}
  /\ change = Zero

Select ==
  /\ outcome = "pending"
  /\ \E S \in SUBSET pool :
       /\ ValueLe(request, Funds(S))
       /\ selected' = S
       /\ change' = [k \in Kinds |-> Funds(S)[k] - request[k]]
  /\ outcome' = "selected"
  /\ UNCHANGED <<request, existing, pool>>

HandOver ==
  /\ outcome = "pending"
  /\ \E S \in SUBSET pool : existing' = Funds(S)
  /\ UNCHANGED <<request, pool, outcome, selected, change>>

Raise ==
  /\ outcome = "pending"
  /\ outcome' = "raised"
  /\ UNCHANGED <<request, existing, pool, selected, change>>

Next == Select \/ HandOver \/ Raise

Spec == Init /\ [][Next]_vars

=============================================================================
