---------------------------- MODULE TokenPacking ----------------------------
(***************************************************************************)
(* The change of a transaction that holds tokens: _pack_tokens_for_change  *)
(* of TransactionBuilder splits them into bundles that respect the maximal *)
(* size of a value, and _calc_change makes an output of each bundle.       *)
(*                                                                         *)
(* A token is an asset name under a policy, with its quantity.  The size   *)
(* of a set of tokens is that of the value that holds them with the least  *)
(* ADA it needs, which is also the ADA that is measured: its encoding has  *)
(* the same length for all of them.                                        *)
(***************************************************************************)
EXTENDS Integers, Sequences, FiniteSets

CONSTANTS
  Token,
  PolicyOf,      \* the policy of a token
  ValueSize(_),  \* len(attempt_amount.to_cbor()) of a set of tokens
  MinCoin(_),    \* min_lovelace_post_alonzo of an output with a set of tokens
  Orders,        \* changes: the tokens in the order of the dictionaries
  MaxSizes,      \* values of max_val_size
  Coins          \* ADA in the change

\* A dictionary holds a token once.  (Its tokens are also grouped by policy,
\* which nothing here relies on.)
ASSUME OrderAssumption ==
  \A o \in Orders : /\ o \in Seq(Token) /\ o # <<>>
                    /\ \A i, j \in 1..Len(o) : o[i] = o[j] => i = j
ASSUME SizeAssumption == \A S \in SUBSET Token : ValueSize(S) \in Nat /\ MinCoin(S) \in Nat
ASSUME LimitAssumption == MaxSizes \subseteq Nat /\ Coins \subseteq Nat

VARIABLES
  order,      \* the tokens of the change
  maxValSize, \* max_val_size
  respect,    \* respect_min_utxo
  total,      \* change.coin at the start
  left,       \* tokens the loops have not reached
  policy,     \* policy_id
  buffer,     \* temp_assets
  bundle,     \* output.amount.multi_asset
  old,        \* old_amount
  groups,     \* multi_asset_arr
  coin,       \* change.coin
  outputs,    \* change_output_arr: [coin, tokens]
  pc          \* "pack", "coins", "done" or "raised"

setup == <<order, maxValSize, respect, total>>
packVars == <<setup, left, policy, buffer, bundle, old, groups, coin, outputs, pc>>

Elements(s) == {s[i] : i \in 1..Len(s)}

-----------------------------------------------------------------------------
(* _pack_tokens_for_change *)

\* Mutant: the buffer is measured without the bundle it will join.
OverflowsAlone(t) == ValueSize(buffer \cup {t}) > maxValSize

\* _adding_asset_make_output_overflow
Overflows(t) == ValueSize(bundle \cup buffer \cup {t}) > maxValSize

\* The loop over the assets of a policy.
AddAsset ==
  LET t == Head(left) IN
  /\ pc = "pack"
  /\ left # <<>> /\ PolicyOf[t] = policy
  /\ ~Overflows(t)
  /\ buffer' = buffer \cup {t}
  /\ left' = Tail(left)
  /\ UNCHANGED <<setup, policy, bundle, old, groups, coin, outputs, pc>>

\* The asset does not fit: what there is becomes a group, whether anything is in
\* it or not, and the asset starts the next one without being measured.
Split ==
  LET t == Head(left) IN
  /\ pc = "pack"
  /\ left # <<>> /\ PolicyOf[t] = policy
  /\ Overflows(t)
  /\ groups' = Append(groups, bundle \cup buffer)
  /\ bundle' = {} /\ old' = {}
  /\ buffer' = {t}
  /\ left' = Tail(left)
  /\ UNCHANGED <<setup, policy, coin, outputs, pc>>

PolicyDone == left # <<>> => PolicyOf[Head(left)] # policy

\* The buffer of a policy joins the output, which is measured once more.
EndPolicy ==
  LET joined == bundle \cup buffer IN
  /\ pc = "pack"
  /\ PolicyDone
  /\ ValueSize(joined) <= maxValSize
  /\ bundle' = joined /\ old' = joined
  /\ buffer' = {}
  /\ IF left = <<>>
     THEN pc' = "coins" /\ groups' = Append(groups, joined) /\ UNCHANGED policy
     ELSE policy' = PolicyOf[Head(left)] /\ UNCHANGED <<pc, groups>>
  /\ UNCHANGED <<setup, left, coin, outputs>>

\* Too large: the loop over the policies is left with the amount there was before
\* the buffer; the buffer and the policies to come are not packed.
GiveUp ==
  /\ pc = "pack"
  /\ PolicyDone
  /\ ValueSize(bundle \cup buffer) > maxValSize
  /\ bundle' = old
  /\ groups' = Append(groups, old)
  /\ pc' = "coins"
  /\ UNCHANGED <<setup, left, policy, buffer, old, coin, outputs>>

-----------------------------------------------------------------------------
(* The outputs of _calc_change *)

ShortOfCoin(g) == respect /\ coin < MinCoin(g)

Group == groups[Len(outputs) + 1]

NotEnoughAda ==
  /\ pc = "coins"
  /\ ShortOfCoin(Group)
  /\ pc' = "raised"
  /\ UNCHANGED <<setup, left, policy, buffer, bundle, old, groups, coin, outputs>>

\* Every group but the last takes its minimum, the last takes what is left.
AddOutput ==
  LET last == Len(outputs) + 1 = Len(groups)
      c == IF last THEN coin ELSE MinCoin(Group)
  IN
  /\ pc = "coins"
  /\ ~ShortOfCoin(Group)
  /\ outputs' = Append(outputs, [coin |-> c, tokens |-> Group])
  /\ coin' = coin - c
  /\ pc' = IF last THEN "done" ELSE pc
  /\ UNCHANGED <<setup, left, policy, buffer, bundle, old, groups>>

PackInit ==
  /\ order \in Orders
  /\ maxValSize \in MaxSizes
  /\ respect \in BOOLEAN
  /\ total \in Coins
  /\ left = order
  /\ policy = PolicyOf[Head(order)]
  /\ buffer = {} /\ bundle = {} /\ old = {}
  /\ groups = <<>>
  /\ coin = total
  /\ outputs = <<>>
  /\ pc = "pack"

PackNext == AddAsset \/ Split \/ EndPolicy \/ GiveUp \/ NotEnoughAda \/ AddOutput

PackSpec == PackInit /\ [][PackNext]_packVars

-----------------------------------------------------------------------------
(* Properties *)

\* No token of the change is too large for an output of its own.
FitAlone == \A t \in Elements(order) : ValueSize({t}) <= maxValSize

Packed == pc \in {"coins", "done"}

\* Every token of the change is in exactly one group (txbuilder.py:813-878),
\* however the splits fall; tokens are given up only where one of them does not
\* fit into an output of its own.
NoTokenLost ==
  Packed =>
    /\ FitAlone => UNION Elements(groups) = Elements(order)
    /\ UNION Elements(groups) \subseteq Elements(order)
    /\ \A i, j \in 1..Len(groups) : i # j => groups[i] \cap groups[j] = {}

\* No group is larger than the limit and none is empty, although a split is not
\* measured and empty groups are not removed (txbuilder.py:838-876).
GroupsFit ==
  FitAlone => \A i \in 1..Len(groups) : ValueSize(groups[i]) <= maxValSize /\ groups[i] # {}

\* The outputs hold all the ADA of the change and each its minimum, if the minimum
\* is to be respected (txbuilder.py:689-712): if it is not, what the groups before
\* it take can leave the last one with less than nothing.
AdaShared ==
  pc = "done" =>
    /\ coin = 0 /\ Len(outputs) = Len(groups)
    /\ \A i \in 1..Len(outputs) :
         /\ outputs[i].tokens = groups[i]
         /\ outputs[i].coin >= MinCoin(groups[i]) \/ (~respect /\ i = Len(outputs))

\* The change is packed as it must be for the ledger to take the outputs and for
\* the transaction to balance: no token lost, no output too large, no ADA lost
\* (_pack_tokens_for_change and _calc_change, txbuilder.py:689-712, 773-878).
PackingSound == NoTokenLost /\ GroupsFit /\ AdaShared

(***************************************************************************)
(* What the three parts rest on, step by step.                        *)
(***************************************************************************)
PackTypeOK ==
  /\ order \in Seq(Token) /\ left \in Seq(Token)
  /\ maxValSize \in Nat /\ respect \in BOOLEAN
  /\ buffer \subseteq Token /\ bundle \subseteq Token
  /\ groups \in Seq(SUBSET Token)
  /\ coin \in Int
  /\ outputs \in Seq([coin : Int, tokens : SUBSET Token])
  /\ pc \in {"pack", "coins", "done", "raised"}

Pending == bundle \cup buffer

\* A token is ahead of the loops, in the output they fill, or in one group.
TokensApart ==
  /\ \A i, j \in 1..Len(groups) : i # j => groups[i] \cap groups[j] = {}
  /\ \A i \in 1..Len(groups) : groups[i] \subseteq Elements(order)
  /\ pc = "pack" =>
       /\ old = bundle
       /\ Pending \cup Elements(left) \subseteq Elements(order)
       /\ \A i, j \in 1..Len(left) : left[i] = left[j] => i = j
       /\ Pending \cap Elements(left) = {}
       /\ \A i \in 1..Len(groups) : groups[i] \cap (Pending \cup Elements(left)) = {}

\* What is put out or pending fits, and nothing is pending only where the loop over
\* the assets is about to add one: no group is empty and no buffer is given up.
PendingFits ==
  FitAlone =>
    /\ GroupsFit
    /\ pc = "pack" =>
         IF Pending = {} THEN left # <<>> /\ PolicyOf[Head(left)] = policy
         ELSE ValueSize(Pending) <= maxValSize

\* Nothing falls between the groups, the output and what is left.
AllTokensThere ==
  FitAlone =>
    \A t \in Elements(order) :
      \/ \E i \in 1..Len(groups) : t \in groups[i]
      \/ pc = "pack" /\ t \in Pending \cup Elements(left)

\* The outputs so far are the first groups, each with its minimum.
OutputsInStep ==
  /\ pc = "pack" => outputs = <<>>
  /\ pc = "coins" =>
       /\ Len(outputs) < Len(groups)
       /\ \A i \in 1..Len(outputs) :
            outputs[i].tokens = groups[i] /\ outputs[i].coin = MinCoin(groups[i])
  /\ AdaShared

PackInv == PackTypeOK /\ TokensApart /\ PendingFits /\ AllTokensThere /\ OutputsInStep

=============================================================================
