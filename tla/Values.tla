------------------------------- MODULE Values -------------------------------
(***************************************************************************)
(* The value algebra of pycardano: Asset, MultiAsset and Value of          *)
(* transaction.py and the minimum-ADA rule of utils.py.                    *)
(*                                                                         *)
(* A normalised Value (no zero quantities, which is what every addition    *)
(* and subtraction of the code returns) is a total function from the kinds *)
(* of money, ADA and the native assets, to integers; an asset that the     *)
(* dictionaries do not hold has quantity 0.                                *)
(***************************************************************************)
EXTENDS Integers, FiniteSets, Sums

CONSTANTS
  ADA,          \* the coin field of a Value
  Assets,       \* the (policy id, asset name) pairs
  MinBase,      \* lovelace a pure-ADA output must hold
  MinPerAsset,  \* additional lovelace for each native asset it holds
  WideCoin,     \* coins from here on take more bytes in CBOR
  WideExtra     \* lovelace those bytes cost

ASSUME AssetsAssumption == IsFiniteSet(Assets) /\ ADA \notin Assets
ASSUME MinAssumption ==
  {MinBase, MinPerAsset, WideCoin, WideExtra} \subseteq Nat

Kinds == Assets \cup {ADA}

Value == [Kinds -> Int]
Amounts == [Kinds -> Nat]     \* what a UTxO or an output on chain can hold

Zero == [k \in Kinds |-> 0]

\* A Value that holds quantity n of kind k only.
Only(k, n) == [Zero EXCEPT ![k] = n]

a ++ b == [k \in Kinds |-> a[k] + b[k]]
a -- b == [k \in Kinds |-> a[k] - b[k]]

(***************************************************************************)
(* Python's <=, <, >= and > on MultiAsset and Value.  They compare key by  *)
(* key, and a key of the smaller side that the larger side lacks makes the *)
(* comparison false whatever its sign.  The order is partial: neither      *)
(* a <= b nor a >= b need hold.                                            *)
(***************************************************************************)
MultiAssetLe(a, b) == \A x \in Assets : a[x] # 0 => b[x] # 0 /\ a[x] <= b[x]
MultiAssetGe(a, b) == \A x \in Assets : b[x] # 0 => a[x] # 0 /\ a[x] >= b[x]
SameAssets(a, b)   == \A x \in Assets : a[x] = b[x]
MultiAssetGt(a, b) == MultiAssetGe(a, b) /\ ~SameAssets(a, b)

ValueLe(a, b) == a[ADA] <= b[ADA] /\ MultiAssetLe(a, b)
ValueLt(a, b) == ValueLe(a, b) /\ a # b

\* MultiAsset.filter with the criteria the builder uses: only the assets of S,
\* and only positive quantities.
KeepAssets(v, S) == [k \in Kinds |-> IF k = ADA \/ k \in S THEN v[k] ELSE 0]
KeepPositive(v)  == [k \in Kinds |-> IF k = ADA \/ v[k] > 0 THEN v[k] ELSE 0]
WithCoin(v, c)   == [v EXCEPT ![ADA] = c]

AssetsOf(v) == {x \in Assets : v[x] # 0}

(***************************************************************************)
(* min_lovelace_post_alonzo: proportional to the serialized size of the    *)
(* output.  The size grows with the number of assets and with the width of *)
(* the coin; a coin of 0 is measured as 1 ADA, which is a wide coin.       *)
(***************************************************************************)
MinLovelace(v) ==
  MinBase + MinPerAsset * Cardinality(AssetsOf(v))
          + (IF v[ADA] = 0 \/ v[ADA] >= WideCoin THEN WideExtra ELSE 0)

=============================================================================
