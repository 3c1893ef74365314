--------------------------- MODULE TxBuilderProofs ---------------------------
(***************************************************************************)
(* Proofs about the transaction builder, for any outputs, UTxOs, mints,    *)
(* certificates and protocol parameters, and any number of edits and       *)
(* builds: what a body that build returns spends, pays and costs.          *)
(***************************************************************************)
EXTENDS TxBuilder, CoinSelectionProofs

-----------------------------------------------------------------------------
(* The inductive invariant *)

Addresses == {o.address : o \in Outputs} \cup ChangeAddresses \cup {NoAddress}
OutputType == [address : Addresses, amount : Amounts]
AskType ==
  [potential : SUBSET UTxOs, excluded : SUBSET UTxOs, wallet : BOOLEAN,
   mint : Mints \cup {Zero}, withdrawn : Nat, certs : SUBSET Certificates,
   proposals : SUBSET Proposals, donation : Nat]

Stages == {"idle", "selecting", "collateral", "change", "fee", "body"}

\* The size of the body with outputs outs and fee f, and what it costs.
SizeOf(outs, f) == TxSize(TxBody(outs, f))
CostOf(outs, f) == MinFee(TxBody(outs, f), Referenced)

\* The builder's fields keep their types; certificates and proposals are finite.
BuilderTypeOK ==
  /\ inputs \in [UTxOs -> Nat]
  /\ outputs \in Seq(OutputType)
  /\ original \in Seq(OutputType)
  /\ ask \in AskType
  /\ IsFiniteSet(ask.certs) /\ IsFiniteSet(ask.proposals)
  /\ fee \in Nat
  /\ stage \in Stages
  /\ args \in [change : ChangeAddresses \cup {NoAddress}, merge : BOOLEAN]
  /\ rescued \in BOOLEAN
  /\ given \in [UTxOs -> Nat]
  /\ before \in Seq(OutputType)
  /\ collateral \in [inputs : SUBSET UTxOs, back : Nat]

\* Where every input comes from, and how often it is there.
OfferedInv ==
  /\ \A u \in UTxOs :
       \/ u \in ask.potential
       \/ inputs[u] = given[u]
       \/ /\ inputs[u] = given[u] + 1
          /\ ask.wallet /\ Owner[u] = Wallet /\ u \notin WithScript
  /\ stage # "idle" =>
       \A u \in InputSet(inputs) : u \in ask.potential \/ u \notin ask.excluded

\* The selectors serve the call that the running build makes.
JobInv ==
  stage = "selecting" =>
    /\ job.pool = Pool
    /\ job.request = Unfulfilled(args)
    /\ job.existing = Remaining

\* No fee is narrower than another, once there is one.
FeeInv ==
  /\ fee = 0 \/ fee >= WideFee
  /\ stage \in {"fee", "body"} => fee >= WideFee

\* No output needs more of an asset than is provided.
Covers(outs) == \A k \in Assets : Paid(outs)[k] <= Provided[k]

\* Between the two passes: the change of the first one, under a fee that is no
\* more than what the outputs without change cost.
PassInv ==
  /\ stage \in {"collateral", "change"} /\ ~rescued => Covers(outputs)
  /\ stage = "fee" =>
       /\ args.change # NoAddress
       /\ ~rescued => Covers(original)
       /\ ~Uncovered(original, fee)
       /\ outputs = WithChange(original, fee)
       /\ fee <= CostOf(original, fee)

\* What is to be returned: paid for, small enough, and with its change.
BodyInv ==
  stage = "body" =>
    /\ fee >= CostOf(outputs, fee)
    /\ SizeOf(outputs, fee) <= MaxTxSize
    /\ args.change # NoAddress /\ ~args.merge =>
         LET last == outputs[Len(outputs)]
         IN  last.address = args.change /\ last.amount[ADA] >= MinLovelace(last.amount)
    /\ args.change # NoAddress /\ ~rescued =>
         \A k \in Kinds : Paid(outputs)[k] + Coin(fee)[k] = Provided[k]

\* The outputs that build was called with: untouched up to the first pass, kept
\* aside between the passes, and back when build has raised.
KeptInv ==
  /\ stage \in {"selecting", "collateral", "change"} => outputs = before
  /\ stage = "fee" => original = before
  /\ FailureKeepsOutputs

BuilderInv ==
  /\ BuilderTypeOK
  /\ SelectorInv
  /\ OfferedInv
  /\ JobInv
  /\ FeeInv
  /\ PassInv
  /\ BodyInv
  /\ KeptInv

-----------------------------------------------------------------------------
(* Outputs: what they pay, what they cost, where the change goes *)

\* Sets of indexes have a least and a greatest member.
LEMMA MinIsIn ==
  ASSUME NEW S \in SUBSET Nat, S # {}
  PROVE  Min(S) \in S
<1>1. PICK x \in S : \A y \in S : ~(<<y, x>> \in OpToRel(<, Nat))
  BY NatLessThanWellFounded, WFMin
<1>2. \A y \in S : x <= y
  <2>1. \A y \in S : y \in Nat /\ x \in Nat /\ ~(y < x)
    BY <1>1 DEF OpToRel
  <2> QED BY <2>1
<1> QED BY <1>2 DEF Min

LEMMA MaxIsIn ==
  ASSUME NEW n \in Nat, NEW S \in SUBSET (0..n), S # {}
  PROVE  Max(S) \in S
<1> DEFINE R == {m \in Nat : n - m \in S}
<1>1. R \in SUBSET Nat /\ R # {}
  <2>1. PICK x \in S : TRUE
    OBVIOUS
  <2>2. n - x \in Nat /\ n - (n - x) = x
    OBVIOUS
  <2> QED BY <2>2
<1>2. PICK m \in R : \A y \in R : ~(<<y, m>> \in OpToRel(<, Nat))
  BY <1>1, NatLessThanWellFounded, WFMin
<1>3. ASSUME NEW y \in S
      PROVE  n - m >= y
  <2>1. n - y \in Nat /\ n - (n - y) = y /\ y \in Nat
    OBVIOUS
  <2>2. n - y \in R
    BY <2>1
  <2>3. \A z \in R : z \in Nat /\ m \in Nat /\ ~(z < m)
    BY <1>1, <1>2 DEF OpToRel
  <2> HIDE DEF R
  <2> QED BY <2>1, <2>2, <2>3
<1>4. n - m \in S
  BY <1>2
<1> QED BY <1>3, <1>4 DEF Max

\* The output that the change is merged into is one of the list.
LEMMA MergeIndexIn ==
  ASSUME NEW outs \in Seq(OutputType), MergeTargets(outs) # {}
  PROVE  MergeIndex(outs) \in 1..Len(outs)
<1> DEFINE bare == {i \in MergeTargets(outs) : outs[i].amount[ADA] = 0}
<1>1. DOMAIN outs = 1..Len(outs) /\ Len(outs) \in Nat
  OBVIOUS
<1>2. MergeTargets(outs) \in SUBSET Nat /\ MergeTargets(outs) \subseteq 1..Len(outs)
  BY <1>1 DEF MergeTargets
<1>3. bare \in SUBSET (0..Len(outs)) /\ bare \subseteq 1..Len(outs)
  BY <1>1, <1>2
<1>4. bare # {} => Max(bare) \in bare
  BY <1>1, <1>3, MaxIsIn
<1>5. Min(MergeTargets(outs)) \in MergeTargets(outs)
  BY <1>2, MinIsIn
<1>6. MergeIndex(outs) = IF bare # {} THEN Max(bare) ELSE Min(MergeTargets(outs))
  BY DEF MergeIndex
<1> HIDE DEF bare
<1> QED BY <1>2, <1>3, <1>4, <1>5, <1>6

\* What the outputs of a list pay is an amount.
LEMMA PaidAmounts ==
  ASSUME NEW outs \in Seq(OutputType)
  PROVE  Paid(outs) \in Amounts
<1>1. DOMAIN outs = 1..Len(outs) /\ IsFiniteSet(1..Len(outs))
  BY FS_Interval
<1>2. ASSUME NEW k \in Kinds
      PROVE  Total([i \in DOMAIN outs |-> outs[i].amount[k]], DOMAIN outs) \in Nat
  <2> DEFINE f == [i \in DOMAIN outs |-> outs[i].amount[k]]
             D == DOMAIN outs
  <2>1. \A i \in D : f[i] \in Nat
    <3>1. \A i \in D : outs[i] \in OutputType
      OBVIOUS
    <3>2. \A o \in OutputType : o.amount[k] \in Nat
      BY DEF OutputType, Amounts
    <3> QED BY <3>1, <3>2
  <2>2. IsFiniteSet(D)
    BY <1>1
  <2> HIDE DEF f, D
  <2>3. Total(f, D) \in Nat
    BY <2>1, <2>2, TotalFinite
  <2> QED BY <2>3 DEF f, D
<1> QED BY <1>2 DEF Paid, Amounts

\* The size of an output grows with its amount.
LEMMA OutputSizeGrows ==
  ASSUME NEW o \in OutputType, NEW p \in OutputType,
         \A k \in Kinds : o.amount[k] <= p.amount[k]
  PROVE  OutputSize(o) <= OutputSize(p) /\ OutputSize(o) \in Nat /\ OutputSize(p) \in Nat
<1>1. \A k \in Kinds : o.amount[k] \in Nat /\ p.amount[k] \in Nat
  BY DEF OutputType, Amounts
<1>2. AssetsOf(o.amount) \in SUBSET AssetsOf(p.amount)
  <2> SUFFICES ASSUME NEW x \in AssetsOf(o.amount)
               PROVE  x \in AssetsOf(p.amount)
    OBVIOUS
  <2>1. x \in Kinds /\ x \in Assets /\ o.amount[x] # 0
    BY DEF AssetsOf, Kinds
  <2>2. p.amount[x] # 0
    BY <1>1, <2>1
  <2> QED BY <2>1, <2>2 DEF AssetsOf
<1>3. AssetsOf(p.amount) \in SUBSET Assets
  BY DEF AssetsOf
<1>4. IsFiniteSet(AssetsOf(p.amount)) /\ Cardinality(AssetsOf(p.amount)) \in Nat
  BY <1>3, AssetsAssumption, FS_Subset, FS_CardinalityType
<1>5. /\ Cardinality(AssetsOf(o.amount)) \in Nat
      /\ Cardinality(AssetsOf(o.amount)) <= Cardinality(AssetsOf(p.amount))
  BY <1>2, <1>4, FS_Subset, FS_CardinalityType
<1>6. /\ o.amount[ADA] \in Nat /\ p.amount[ADA] \in Nat
      /\ o.amount[ADA] <= p.amount[ADA] /\ WideCoin \in Nat
  BY <1>1, MinAssumption DEF Kinds
<1> QED BY <1>4, <1>5, <1>6 DEF OutputSize

\* The part of a body's size that its outputs take.
OutputSizes(outs) ==
  Total([i \in DOMAIN outs |-> OutputSize(outs[i])], DOMAIN outs)

\* More outputs and larger ones take more.
LEMMA OutputSizesGrow ==
  ASSUME NEW outs \in Seq(OutputType), NEW more \in Seq(OutputType),
         Len(outs) <= Len(more),
         \A i \in 1..Len(outs) : \A k \in Kinds : outs[i].amount[k] <= more[i].amount[k]
  PROVE  /\ OutputSizes(outs) <= OutputSizes(more)
         /\ OutputSizes(outs) \in Nat /\ OutputSizes(more) \in Nat
<1> DEFINE S == DOMAIN outs
           T == DOMAIN more
           f == [i \in S |-> OutputSize(outs[i])]
           g == [i \in T |-> OutputSize(more[i])]
<1>1. S = 1..Len(outs) /\ T = 1..Len(more) /\ Len(outs) \in Nat /\ Len(more) \in Nat
  OBVIOUS
<1>2. S \in SUBSET T /\ IsFiniteSet(T)
  <2> DEFINE n == Len(more)
  <2>0. n \in Int
    BY <1>1
  <2> HIDE DEF n
  <2>1. IsFiniteSet(1..n)
    BY ONLY <2>0, FS_Interval
  <2>2. 1..Len(outs) \subseteq 1..Len(more)
    BY <1>1
  <2> QED BY <1>1, <2>1, <2>2 DEF n
<1>3. ASSUME NEW i \in T
      PROVE  g[i] \in Nat
  <2>1. more[i] \in OutputType
    OBVIOUS
  <2>2. \A k \in Kinds : more[i].amount[k] <= more[i].amount[k]
    BY <2>1 DEF OutputType, Amounts
  <2> QED BY <2>1, <2>2, OutputSizeGrows
<1>4. ASSUME NEW i \in S
      PROVE  f[i] \in Nat /\ f[i] <= g[i]
  <2>1. i \in T /\ outs[i] \in OutputType /\ more[i] \in OutputType
    BY <1>2
  <2>2. \A k \in Kinds : outs[i].amount[k] <= more[i].amount[k]
    BY <1>1
  <2>3. OutputSize(outs[i]) <= OutputSize(more[i]) /\ OutputSize(outs[i]) \in Nat
    BY <2>1, <2>2, OutputSizeGrows
  <2> QED BY <2>1, <2>3
<1> HIDE DEF f, g, S, T
<1>5. Total(f, S) <= Total(g, T) /\ Total(f, S) \in Nat /\ Total(g, T) \in Nat
  BY <1>2, <1>3, <1>4, TotalMonotone
<1> QED BY <1>5 DEF OutputSizes, f, g, S, T

\* A change of its own is paid on top of the outputs.
LEMMA AppendOutput ==
  ASSUME NEW outs \in Seq(OutputType), NEW o \in OutputType
  PROVE  /\ Append(outs, o) \in Seq(OutputType)
         /\ Len(Append(outs, o)) = Len(outs) + 1 /\ Len(outs) \in Nat
         /\ \A i \in 1..Len(outs) : Append(outs, o)[i] = outs[i]
         /\ Append(outs, o)[Len(outs) + 1] = o
         /\ \A k \in Kinds : Paid(Append(outs, o))[k] = Paid(outs)[k] + o.amount[k]
<1> DEFINE new == Append(outs, o)
           n == Len(outs)
<1>1. /\ new \in Seq(OutputType) /\ Len(new) = n + 1 /\ n \in Nat
      /\ \A i \in 1..n : new[i] = outs[i]
      /\ new[n + 1] = o
      /\ DOMAIN outs = 1..n /\ DOMAIN new = 1..(n + 1)
  BY AppendProperties, LenProperties
<1> HIDE DEF new, n
<1>2. \A p \in OutputType : \A k \in Kinds : p.amount[k] \in Nat
  BY DEF OutputType, Amounts
<1>3. \A i \in 1..(n + 1) : new[i] \in OutputType
  BY <1>1
<1>4. ASSUME NEW k \in Kinds
      PROVE  Paid(new)[k] = Paid(outs)[k] + o.amount[k]
  <2> DEFINE f == [i \in DOMAIN outs |-> outs[i].amount[k]]
             g == [i \in DOMAIN new |-> new[i].amount[k]]
  <2>1. Paid(outs)[k] = Total(f, 1..n) /\ Paid(new)[k] = Total(g, 1..(n + 1))
    BY <1>1 DEF Paid
  <2>2. \A i \in 1..n : g[i] = f[i]
    BY <1>1
  <2>3. \A i \in 1..(n + 1) : g[i] \in Nat
    BY <1>1, <1>2, <1>3
  <2>4. g[n + 1] = o.amount[k]
    BY <1>1
  <2> HIDE DEF f, g
  <2>5. Total(g, 1..(n + 1)) = Total(f, 1..n) + g[n + 1]
    BY <1>1, <2>2, <2>3, TotalNext
  <2> QED BY <2>1, <2>4, <2>5
<1> QED BY <1>1, <1>4 DEF new, n

\* A change that is merged is paid by the output it is merged into.
LEMMA MergeOutput ==
  ASSUME NEW outs \in Seq(OutputType), NEW j \in 1..Len(outs), NEW c \in Amounts
  PROVE  LET new == [outs EXCEPT ![j].amount = c ++ @]
         IN  /\ new \in Seq(OutputType) /\ Len(new) = Len(outs)
             /\ \A i \in 1..Len(outs) : \A k \in Kinds :
                  new[i].amount[k] = outs[i].amount[k] + IF i = j THEN c[k] ELSE 0
             /\ \A k \in Kinds : Paid(new)[k] = Paid(outs)[k] + c[k]
<1> DEFINE new == [outs EXCEPT ![j].amount = c ++ @]
           n == Len(outs)
<1>1. DOMAIN outs = 1..n /\ DOMAIN new = 1..n /\ n \in Nat /\ IsFiniteSet(1..n)
  BY FS_Interval
<1>2. \A i \in 1..n : outs[i] \in OutputType
  BY <1>1
<1>3. outs[j].amount \in Amounts /\ c ++ outs[j].amount \in Amounts
  BY <1>2, PlusAmounts DEF OutputType
<1>4. new[j] = [outs[j] EXCEPT !.amount = c ++ outs[j].amount]
      /\ \A i \in 1..n : i # j => new[i] = outs[i]
  BY <1>1
<1>5. new[j] \in OutputType /\ new[j].amount = c ++ outs[j].amount
  BY <1>2, <1>3, <1>4 DEF OutputType
<1>6. new \in Seq(OutputType) /\ Len(new) = n
  <2>1. \A i \in 1..n : new[i] \in OutputType
    BY <1>2, <1>4, <1>5
  <2>2. new = [i \in 1..n |-> new[i]]
    BY <1>1
  <2> HIDE DEF new
  <2>3. new \in [1..n -> OutputType]
    BY <2>1, <2>2
  <2> QED BY <1>1, <2>3, IsASeq
<1> HIDE DEF new, n
<1>7. \A o \in OutputType : \A k \in Kinds : o.amount[k] \in Nat
  BY DEF OutputType, Amounts
<1>8. \A k \in Kinds : c[k] \in Nat /\ (c ++ outs[j].amount)[k] = c[k] + outs[j].amount[k]
  BY <1>3, PlusAmounts DEF Amounts
<1>9. ASSUME NEW i \in 1..n, NEW k \in Kinds
      PROVE  new[i].amount[k] = outs[i].amount[k] + IF i = j THEN c[k] ELSE 0
  <2>1. CASE i = j
    BY <1>2, <1>5, <1>7, <1>8, <2>1
  <2>2. CASE i # j
    BY <1>2, <1>4, <1>7, <2>2
  <2> QED BY <2>1, <2>2
<1>10. ASSUME NEW k \in Kinds
       PROVE  Paid(new)[k] = Paid(outs)[k] + c[k]
  <2> DEFINE f == [i \in DOMAIN outs |-> outs[i].amount[k]]
             g == [i \in DOMAIN new |-> new[i].amount[k]]
             D == 1..n
  <2>1. Paid(outs)[k] = Total(f, D) /\ Paid(new)[k] = Total(g, D)
    BY <1>1, <1>6 DEF Paid
  <2>2. \A i \in D : f[i] \in Nat /\ g[i] \in Nat
    BY <1>1, <1>2, <1>6, <1>7
  <2>3. \A i \in D \ {j} : g[i] = f[i]
    BY <1>1, <1>4, <1>6
  <2>4. g[j] = c[k] + f[j] /\ j \in D /\ f[j] \in Nat /\ c[k] \in Nat
    BY <1>1, <1>5, <1>6, <1>8, <2>2 DEF n
  <2>5. IsFiniteSet(D)
    BY <1>1
  <2> HIDE DEF f, g, D
  <2>6. Total(g, D) = Total(f, D) - f[j] + g[j]
    <3>1. j \in D
      BY <2>4
    <3>2. Total(f, D) = Total(f, D \ {j}) + f[j] /\ Total(f, D \ {j}) \in Nat
      BY <2>2, <2>5, <3>1, TotalSplit
    <3>3. Total(g, D) = Total(g, D \ {j}) + g[j]
      BY <2>2, <2>5, <3>1, TotalSplit
    <3>4. Total(g, D \ {j}) = Total(f, D \ {j})
      BY <2>3, TotalSame
    <3>5. f[j] \in Nat /\ g[j] \in Nat
      BY <2>2, <3>1
    <3> QED BY <3>2, <3>3, <3>4, <3>5
  <2>7. Total(f, D) \in Nat
    BY <2>2, <2>5, TotalFinite
  <2> QED BY <2>1, <2>4, <2>6, <2>7
<1> QED BY <1>6, <1>9, <1>10 DEF new, n

\* _merge_changes: the outputs with the change pay that much more, and take no
\* less than without it or with a smaller one.
LEMMA ChangePaid ==
  ASSUME BuilderTypeOK, NEW outs \in Seq(OutputType), NEW c \in Amounts
  PROVE  /\ MergeChanges(outs, c) \in Seq(OutputType)
         /\ Len(outs) \in Nat /\ Len(outs) <= Len(MergeChanges(outs, c))
         /\ \A k \in Kinds : Paid(MergeChanges(outs, c))[k] = Paid(outs)[k] + c[k]
         /\ \A i \in 1..Len(outs) : \A k \in Kinds :
              outs[i].amount[k] <= MergeChanges(outs, c)[i].amount[k]
<1> DEFINE o == [address |-> args.change, amount |-> c]
           j == MergeIndex(outs)
<1>1. o \in OutputType
  BY DEF BuilderTypeOK, OutputType, Addresses
<1>2. \A i \in 1..Len(outs) : \A k \in Kinds :
        /\ outs[i].amount[k] \in Nat /\ c[k] \in Nat
        /\ outs[i].amount[k] <= outs[i].amount[k]
        /\ outs[i].amount[k] <= outs[i].amount[k] + c[k]
  <2>1. \A i \in 1..Len(outs) : outs[i] \in OutputType
    OBVIOUS
  <2>2. \A p \in OutputType : \A k \in Kinds : p.amount[k] \in Nat /\ c[k] \in Nat
    BY DEF OutputType, Amounts
  <2> QED BY <2>1, <2>2
<1>3. Len(outs) \in Nat
  OBVIOUS
<1>4. CASE args.merge /\ MergeTargets(outs) # {}
  <2> DEFINE new == [outs EXCEPT ![j].amount = c ++ @]
  <2>1. MergeChanges(outs, c) = new
    BY <1>4 DEF MergeChanges
  <2>2. j \in 1..Len(outs)
    BY <1>4, MergeIndexIn
  <2>3. /\ new \in Seq(OutputType) /\ Len(new) = Len(outs)
        /\ \A i \in 1..Len(outs) : \A k \in Kinds :
             new[i].amount[k] = outs[i].amount[k] + IF i = j THEN c[k] ELSE 0
        /\ \A k \in Kinds : Paid(new)[k] = Paid(outs)[k] + c[k]
    BY <2>2, MergeOutput
  <2> HIDE DEF new, j
  <2>4. \A i \in 1..Len(outs) : \A k \in Kinds : outs[i].amount[k] <= new[i].amount[k]
    BY <1>2, <2>3
  <2> QED BY <1>3, <2>1, <2>3, <2>4
<1>5. CASE ~(args.merge /\ MergeTargets(outs) # {})
  <2> DEFINE new == Append(outs, o)
  <2>1. MergeChanges(outs, c) = new
    BY <1>5 DEF MergeChanges
  <2>2. /\ new \in Seq(OutputType) /\ Len(new) = Len(outs) + 1
        /\ \A i \in 1..Len(outs) : new[i] = outs[i]
        /\ \A k \in Kinds : Paid(new)[k] = Paid(outs)[k] + o.amount[k]
    BY <1>1, AppendOutput
  <2>3. o.amount = c
    OBVIOUS
  <2> HIDE DEF new, o
  <2> QED BY <1>2, <1>3, <2>1, <2>2, <2>3
<1> QED BY <1>4, <1>5

\* A smaller change leaves smaller outputs.
LEMMA SmallerChange ==
  ASSUME BuilderTypeOK, NEW outs \in Seq(OutputType), NEW c \in Amounts, NEW d \in Amounts,
         \A k \in Kinds : d[k] <= c[k]
  PROVE  /\ Len(MergeChanges(outs, d)) = Len(MergeChanges(outs, c))
         /\ \A i \in 1..Len(MergeChanges(outs, d)) : \A k \in Kinds :
              MergeChanges(outs, d)[i].amount[k] <= MergeChanges(outs, c)[i].amount[k]
<1> DEFINE j == MergeIndex(outs)
           o(v) == [address |-> args.change, amount |-> v]
<1>1. o(c) \in OutputType /\ o(d) \in OutputType
  BY DEF BuilderTypeOK, OutputType, Addresses
<1>2. \A k \in Kinds : c[k] \in Nat /\ d[k] \in Nat
  BY DEF Amounts
<1>3. \A i \in 1..Len(outs) : \A k \in Kinds : outs[i].amount[k] \in Nat
  <2>1. \A i \in 1..Len(outs) : outs[i] \in OutputType
    OBVIOUS
  <2> QED BY <2>1 DEF OutputType, Amounts
<1>4. CASE args.merge /\ MergeTargets(outs) # {}
  <2> DEFINE new(v) == [outs EXCEPT ![j].amount = v ++ @]
  <2>1. MergeChanges(outs, c) = new(c) /\ MergeChanges(outs, d) = new(d)
    BY <1>4 DEF MergeChanges
  <2>2. j \in 1..Len(outs)
    BY <1>4, MergeIndexIn
  <2>3. /\ Len(new(c)) = Len(outs)
        /\ \A i \in 1..Len(outs) : \A k \in Kinds :
             new(c)[i].amount[k] = outs[i].amount[k] + IF i = j THEN c[k] ELSE 0
    BY <2>2, MergeOutput
  <2>4. /\ Len(new(d)) = Len(outs)
        /\ \A i \in 1..Len(outs) : \A k \in Kinds :
             new(d)[i].amount[k] = outs[i].amount[k] + IF i = j THEN d[k] ELSE 0
    BY <2>2, MergeOutput
  <2> HIDE DEF new, j
  <2>5. ASSUME NEW i \in 1..Len(outs), NEW k \in Kinds
        PROVE  new(d)[i].amount[k] <= new(c)[i].amount[k]
    BY <1>2, <1>3, <2>3, <2>4
  <2> QED BY <2>1, <2>3, <2>4, <2>5
<1>5. CASE ~(args.merge /\ MergeTargets(outs) # {})
  <2>1. /\ MergeChanges(outs, c) = Append(outs, o(c))
        /\ MergeChanges(outs, d) = Append(outs, o(d))
    BY <1>5 DEF MergeChanges
  <2>2. /\ Len(Append(outs, o(c))) = Len(outs) + 1 /\ Len(outs) \in Nat
        /\ \A i \in 1..Len(outs) : Append(outs, o(c))[i] = outs[i]
        /\ Append(outs, o(c))[Len(outs) + 1] = o(c)
    BY <1>1, AppendOutput
  <2>3. /\ Len(Append(outs, o(d))) = Len(outs) + 1
        /\ \A i \in 1..Len(outs) : Append(outs, o(d))[i] = outs[i]
        /\ Append(outs, o(d))[Len(outs) + 1] = o(d)
    BY <1>1, AppendOutput
  <2>4. o(c).amount = c /\ o(d).amount = d
    OBVIOUS
  <2> DEFINE x == Append(outs, o(c))
             y == Append(outs, o(d))
             n == Len(outs)
  <2>5. ASSUME NEW i \in 1..(n + 1), NEW k \in Kinds
        PROVE  y[i].amount[k] <= x[i].amount[k]
    <3> HIDE DEF x, y
    <3>1. CASE i \in 1..n
      BY <1>3, <2>2, <2>3, <3>1 DEF x, y
    <3>2. CASE i = n + 1
      BY <1>2, <2>2, <2>3, <2>4, <3>2 DEF x, y
    <3> QED BY <2>2, <3>1, <3>2
  <2> QED BY <2>1, <2>2, <2>3, <2>5
<1> QED BY <1>4, <1>5

-----------------------------------------------------------------------------
(* What the builder's sums are made of *)

LEMMA ImageFinite ==
  ASSUME NEW S, IsFiniteSet(S), NEW f
  PROVE  IsFiniteSet({f[x] : x \in S})
<1> DEFINE T == {f[x] : x \in S}
           g == [x \in S |-> f[x]]
<1>1. g \in Surjection(S, T)
  BY DEF Surjection
<1> QED BY <1>1, FS_Surjection

\* The certificates and proposals of a builder cost a natural number, and the
\* ledger's bill differs from the builder's in the stated deposits only.
LEMMA DepositTypes ==
  ASSUME BuilderTypeOK
  PROVE  /\ Deposits(ask) \in Nat /\ LedgerDeposits(ask) \in Nat
         /\ StatedDeposits(ask) \in Nat /\ ExplicitDeposits(ask) \in Nat
         /\ LedgerDeposits(ask) = Deposits(ask) + ExplicitDeposits(ask) - StatedDeposits(ask)
<1>1. /\ ask.certs \in SUBSET Certificates /\ IsFiniteSet(ask.certs)
      /\ ask.proposals \in SUBSET Proposals /\ IsFiniteSet(ask.proposals)
  BY DEF BuilderTypeOK, AskType
<1>2. ASSUME NEW t
      PROVE  Cardinality(CredentialsOf(ask, t)) \in Nat
  <2> DEFINE f == [c \in CertsOf(ask, t) |-> c.credential]
  <2>1. IsFiniteSet(CertsOf(ask, t))
    BY <1>1, FS_Subset DEF CertsOf
  <2>2. CredentialsOf(ask, t) = {f[c] : c \in CertsOf(ask, t)}
    BY DEF CredentialsOf
  <2> HIDE DEF f
  <2>3. IsFiniteSet(CredentialsOf(ask, t))
    BY <2>1, <2>2, ImageFinite
  <2> QED BY <2>3, FS_CardinalityType
<1> DEFINE S == CertsOf(ask, "explicit")
           f == [c \in S |-> c.coin]
<1>3. IsFiniteSet(S) /\ \A c \in S : f[c] \in Nat
  BY <1>1, FS_Subset, BuilderAssumption DEF CertsOf
<1>4. ExplicitDeposits(ask) \in Nat
  <2>1. ExplicitDeposits(ask) = Total(f, S)
    BY DEF ExplicitDeposits
  <2> HIDE DEF S, f
  <2> QED BY <1>3, <2>1, TotalFinite
<1>5. StatedDeposits(ask) \in Nat
  <2> DEFINE T == {f[c] : c \in S}
             g == [n \in T |-> n]
  <2>1. {c.coin : c \in S} = T
    OBVIOUS
  <2>2. StatedDeposits(ask) = Total([n \in {c.coin : c \in S} |-> n], {c.coin : c \in S})
    BY DEF StatedDeposits
  <2>3. StatedDeposits(ask) = Total(g, T)
    BY <2>1, <2>2
  <2> HIDE DEF f, S
  <2>4. IsFiniteSet(T)
    BY <1>3, ImageFinite
  <2>5. \A n \in T : g[n] \in Nat
    BY <1>3
  <2> HIDE DEF T, g
  <2> QED BY <2>3, <2>4, <2>5, TotalFinite
<1>6. TotalProposalDeposit(ask) \in Nat
  <2> DEFINE P == ask.proposals
             h == [p \in P |-> p.deposit]
  <2>1. TotalProposalDeposit(ask) = Total(h, P)
    BY DEF TotalProposalDeposit
  <2>2. IsFiniteSet(P) /\ \A p \in P : h[p] \in Nat
    BY <1>1, BuilderAssumption
  <2> HIDE DEF P, h
  <2> QED BY <2>1, <2>2, TotalFinite
<1> DEFINE keys == KeyDeposit * Cardinality(CredentialsOf(ask, "registration"))
           pools == PoolDeposit * Cardinality(CredentialsOf(ask, "pool"))
<1>7. keys \in Nat /\ pools \in Nat
  <2>1. KeyDeposit \in Nat /\ PoolDeposit \in Nat
    BY BuilderAssumption
  <2> QED BY <1>2, <2>1
<1>8. /\ Deposits(ask) = keys + pools + StatedDeposits(ask) + TotalProposalDeposit(ask)
      /\ LedgerDeposits(ask) = keys + pools + ExplicitDeposits(ask) + TotalProposalDeposit(ask)
  BY DEF Deposits, TotalKeyDeposit, LedgerDeposits
<1> HIDE DEF keys, pools
<1> QED BY <1>4, <1>5, <1>6, <1>7, <1>8

\* What the builder has and is asked for, kind by kind.
LEMMA BuilderAmounts ==
  ASSUME BuilderTypeOK
  PROVE  /\ Worth(inputs) \in Amounts /\ Paid(outputs) \in Amounts
         /\ ask.mint \in Value /\ ask.mint[ADA] = 0 /\ ask.withdrawn \in Nat
         /\ Deposits(ask) \in Nat /\ Provided \in Value
         /\ \A k \in Kinds :
              Provided[k] = Worth(inputs)[k] + ask.mint[k]
                              + IF k = ADA THEN ask.withdrawn - Deposits(ask) ELSE 0
<1>1. ASSUME NEW k \in Kinds
      PROVE  Worth(inputs)[k] \in Nat
  <2> DEFINE f == [u \in UTxOs |-> inputs[u] * Amount[u][k]]
  <2>1. \A u \in UTxOs : inputs[u] \in Nat /\ Amount[u][k] \in Nat
    BY UTxOAssumption DEF BuilderTypeOK, Amounts
  <2>2. \A u \in UTxOs : f[u] \in Nat
    BY <2>1
  <2>3. Worth(inputs)[k] = Total(f, UTxOs)
    BY DEF Worth
  <2> HIDE DEF f
  <2> QED BY <2>2, <2>3, UTxOAssumption, TotalFinite
<1>2. Worth(inputs) \in Amounts
  BY <1>1 DEF Worth, Amounts
<1>3. Paid(outputs) \in Amounts
  BY PaidAmounts DEF BuilderTypeOK
<1>4. ask.mint \in Value /\ ask.mint[ADA] = 0 /\ ask.withdrawn \in Nat
  <2>1. Zero \in Value /\ Zero[ADA] = 0
    BY DEF Zero, Value, Kinds
  <2>2. ask.mint \in Mints \cup {Zero} /\ ask.withdrawn \in Nat
    BY DEF BuilderTypeOK, AskType
  <2> QED BY <2>1, <2>2, BuilderAssumption
<1>5. Deposits(ask) \in Nat
  BY DepositTypes
<1> DEFINE net == ask.withdrawn - Deposits(ask)
<1>6. net \in Int
  BY <1>4, <1>5
<1>7. ASSUME NEW k \in Kinds
      PROVE  /\ Provided[k] = Worth(inputs)[k] + ask.mint[k] + IF k = ADA THEN net ELSE 0
             /\ Provided[k] \in Int
  <2>1. Coin(net)[k] = IF k = ADA THEN net ELSE 0
    BY DEF Coin, Only, Zero, Kinds
  <2>2. Provided[k] = Worth(inputs)[k] + ask.mint[k] + Coin(net)[k]
    BY DEF Provided, ++
  <2>3. ask.mint[k] \in Int
    BY <1>4 DEF Value
  <2> HIDE DEF net
  <2> QED BY <1>1, <1>6, <2>1, <2>2, <2>3
<1>8. Provided \in Value
  <2>1. Provided = [k \in Kinds |-> Provided[k]]
    BY DEF Provided, ++
  <2> QED BY <1>7, <2>1 DEF Value
<1> QED BY <1>2, <1>3, <1>4, <1>5, <1>7, <1>8

\* What is left over is an amount, unless the builder raises.
LEMMA LeftOverAmounts ==
  ASSUME BuilderTypeOK, NEW outs \in Seq(OutputType), NEW f \in Nat, ~Uncovered(outs, f)
  PROVE  /\ LeftOver(outs, f) \in Amounts /\ Paid(outs) \in Amounts
         /\ LeftOver(outs, f)[ADA] = Provided[ADA] - Paid(outs)[ADA] - f
         /\ \A x \in Assets :
              LeftOver(outs, f)[x] = IF Provided[x] > Paid(outs)[x]
                                     THEN Provided[x] - Paid(outs)[x] ELSE 0
<1>1. Paid(outs) \in Amounts /\ Provided \in Value
  BY PaidAmounts, BuilderAmounts
<1>2. \A k \in Kinds : Paid(outs)[k] \in Nat /\ Provided[k] \in Int
  BY <1>1 DEF Amounts, Value
<1> DEFINE requested == Paid(outs) ++ Coin(f)
<1>3. \A k \in Kinds : requested[k] = Paid(outs)[k] + IF k = ADA THEN f ELSE 0
  BY <1>2 DEF ++, Coin, Only, Zero
<1>4. /\ \A x \in Assets : x \in Kinds /\ x # ADA
      /\ ADA \in Kinds
  BY AssetsAssumption DEF Kinds
<1>5. Provided[ADA] >= requested[ADA]
  <2>1. ~(Provided[ADA] < requested[ADA])
    BY DEF Uncovered
  <2>2. requested[ADA] \in Int
    BY <1>2, <1>3, <1>4
  <2> QED BY <1>2, <1>4, <2>1, <2>2
<1> HIDE DEF requested
<1>6. \A k \in Kinds :
        LeftOver(outs, f)[k] = IF k = ADA \/ Provided[k] - requested[k] > 0
                               THEN Provided[k] - requested[k] ELSE 0
  BY DEF LeftOver, KeepPositive, --, requested
<1>7. LeftOver(outs, f)[ADA] = Provided[ADA] - Paid(outs)[ADA] - f
      /\ LeftOver(outs, f)[ADA] \in Nat
  BY <1>2, <1>3, <1>4, <1>5, <1>6
<1>8. ASSUME NEW x \in Assets
      PROVE  LeftOver(outs, f)[x] = IF Provided[x] > Paid(outs)[x]
                                    THEN Provided[x] - Paid(outs)[x] ELSE 0
  <2>1. requested[x] = Paid(outs)[x]
    BY <1>2, <1>3, <1>4
  <2>2. LeftOver(outs, f)[x] = IF Provided[x] - Paid(outs)[x] > 0
                               THEN Provided[x] - Paid(outs)[x] ELSE 0
    BY <1>4, <1>6, <2>1
  <2>3. Provided[x] \in Int /\ Paid(outs)[x] \in Int
    BY <1>2, <1>4
  <2> QED BY <2>2, <2>3
<1>9. ASSUME NEW k \in Kinds
      PROVE  LeftOver(outs, f)[k] \in Nat
  <2>1. CASE k = ADA
    BY <1>7, <2>1
  <2>2. CASE k \in Assets
    BY <1>2, <1>4, <1>8, <2>2
  <2> QED BY <2>1, <2>2 DEF Kinds
<1>10. LeftOver(outs, f) = [k \in Kinds |-> LeftOver(outs, f)[k]]
  BY DEF LeftOver, KeepPositive
<1>11. LeftOver(outs, f) \in Amounts
  BY <1>9, <1>10 DEF Amounts
<1> QED BY <1>1, <1>7, <1>8, <1>11

LEMMA PairFinite ==
  ASSUME NEW x, NEW y
  PROVE  IsFiniteSet({x, y})
<1>1. IsFiniteSet({x})
  BY FS_Singleton
<1>2. IsFiniteSet({x} \cup {y})
  BY <1>1, FS_AddElement
<1>3. {x, y} = {x} \cup {y}
  OBVIOUS
<1> QED BY <1>2, <1>3

\* A fee as wide as any takes a byte more than a narrow one.
Width(f) == IF f = 0 \/ f >= WideFee THEN 1 ELSE 0

\* The size of a body: its outputs, the width of its fee, and the rest.
LEMMA SizeParts ==
  ASSUME BuilderTypeOK
  PROVE  \E rest \in Nat : \A outs \in Seq(OutputType) : \A f \in Nat :
           SizeOf(outs, f) = rest + OutputSizes(outs) + Width(f)
<1> DEFINE spent == InputSet(inputs)
           pledged == collateral.inputs
           signed == spent \cup pledged
           fields == {n \in {ask.donation, ask.withdrawn} : n > 0}
           a == Cardinality(spent)
           b == Cardinality({Owner[u] : u \in signed})
           c == Cardinality(AssetsOf(ask.mint))
           d == Cardinality(ask.certs)
           e == Cardinality(ask.proposals)
           h == Cardinality(fields)
           p == Cardinality(pledged)
           q == collateral.back
<1>1. IsFiniteSet(spent) /\ IsFiniteSet(pledged) /\ IsFiniteSet(signed)
  <2>1. spent \in SUBSET UTxOs /\ pledged \in SUBSET UTxOs /\ signed \in SUBSET UTxOs
    BY DEF InputSet, BuilderTypeOK
  <2> HIDE DEF spent, pledged, signed
  <2> QED BY <2>1, UTxOAssumption, FS_Subset
<1>2. IsFiniteSet({Owner[u] : u \in signed})
  <2> HIDE DEF signed
  <2> QED BY <1>1, ImageFinite
<1>3. IsFiniteSet(AssetsOf(ask.mint))
  <2>1. AssetsOf(ask.mint) \in SUBSET Assets
    BY DEF AssetsOf
  <2> QED BY <2>1, AssetsAssumption, FS_Subset
<1>4. IsFiniteSet(fields)
  <2>1. fields \in SUBSET {ask.donation, ask.withdrawn}
    OBVIOUS
  <2>2. IsFiniteSet({ask.donation, ask.withdrawn})
    BY PairFinite
  <2> HIDE DEF fields
  <2> QED BY <2>1, <2>2, FS_Subset
<1>5. /\ a \in Nat /\ b \in Nat /\ c \in Nat /\ d \in Nat /\ e \in Nat /\ h \in Nat
      /\ p \in Nat /\ q \in Nat
  BY <1>1, <1>2, <1>3, <1>4, FS_CardinalityType DEF BuilderTypeOK
<1>6. \A outs, f : SizeOf(outs, f)
                     = a + p + q + b + OutputSizes(outs) + c + d + e + h + Width(f)
  BY DEF SizeOf, TxBody, TxSize, OutputSizes, Width
<1> HIDE DEF a, b, c, d, e, h, p, q
<1>7. ASSUME NEW outs \in Seq(OutputType), NEW f \in Nat
      PROVE  SizeOf(outs, f) = (a + p + q + b + c + d + e + h) + OutputSizes(outs) + Width(f)
  <2>1. OutputSizes(outs) \in Nat
    <3>1. \A i \in 1..Len(outs) : \A k \in Kinds : outs[i].amount[k] <= outs[i].amount[k]
      <4>1. \A i \in 1..Len(outs) : outs[i] \in OutputType
        OBVIOUS
      <4> QED BY <4>1 DEF OutputType, Amounts
    <3>2. Len(outs) \in Nat /\ Len(outs) <= Len(outs)
      BY LenProperties
    <3> QED BY <3>1, <3>2, OutputSizesGrow
  <2>2. Width(f) \in Nat
    BY DEF Width
  <2>3. SizeOf(outs, f) = a + p + q + b + OutputSizes(outs) + c + d + e + h + Width(f)
    BY <1>6
  <2> QED BY <1>5, <2>1, <2>2, <2>3
<1>8. a + p + q + b + c + d + e + h \in Nat
  BY <1>5
<1> QED BY <1>7, <1>8

\* More bytes of scripts cost more.
LEMMA ScriptFeeGrows ==
  ASSUME NEW m \in Nat, NEW n \in Nat, m <= n
  PROVE  ScriptFee(m) \in Nat /\ ScriptFee(n) \in Nat /\ ScriptFee(m) <= ScriptFee(n)
<1> DEFINE S == {j \in 1..MaxScriptSize : j <= m}
           T == {j \in 1..MaxScriptSize : j <= n}
<1>1. MaxScriptSize \in Nat /\ BytePrice \in [1..MaxScriptSize -> Nat]
  BY BuilderAssumption
<1>2. IsFiniteSet(T) /\ S \in SUBSET T
  <2>1. IsFiniteSet(1..MaxScriptSize)
    BY <1>1, FS_Interval
  <2>2. T \in SUBSET (1..MaxScriptSize) /\ S \in SUBSET T
    BY <1>1
  <2> HIDE DEF S, T
  <2> QED BY <2>1, <2>2, FS_Subset
<1>3. /\ \A j \in T : BytePrice[j] \in Nat
      /\ \A j \in S : BytePrice[j] \in Nat /\ BytePrice[j] <= BytePrice[j]
  BY <1>1
<1>4. ScriptFee(m) = Total(BytePrice, S) /\ ScriptFee(n) = Total(BytePrice, T)
  BY DEF ScriptFee
<1> HIDE DEF S, T
<1> QED BY <1>2, <1>3, <1>4, TotalMonotone

\* The scripts that the builder counts are at least those on the inputs it was given.
LEMMA ReferencedAmounts ==
  ASSUME BuilderTypeOK, NEW S \in SUBSET UTxOs, \A u \in S : given[u] > 0
  PROVE  Referenced \in Nat /\ Carried(S) \in Nat /\ Carried(S) <= Referenced
<1> DEFINE f == [u \in UTxOs |-> given[u] * ScriptSize[u]]
<1>1. ASSUME NEW u \in UTxOs
      PROVE  /\ f[u] \in Nat /\ ScriptSize[u] \in Nat
             /\ u \in S => ScriptSize[u] <= f[u]
  <2> DEFINE a == given[u]
             b == ScriptSize[u]
  <2>1. a \in Nat /\ b \in Nat /\ f[u] = a * b /\ (u \in S => a > 0)
    BY BuilderAssumption DEF BuilderTypeOK
  <2> HIDE DEF a, b, f
  <2>2. a * b \in Nat /\ (a > 0 => b <= a * b)
    BY <2>1
  <2> QED BY <2>1, <2>2 DEF b
<1> HIDE DEF f
<1>2. Total(ScriptSize, S) <= Total(f, UTxOs) /\ Total(ScriptSize, S) \in Nat
      /\ Total(f, UTxOs) \in Nat
  BY <1>1, UTxOAssumption, TotalMonotone
<1> QED BY <1>2 DEF Carried, Referenced, f

\* A body with smaller outputs, under any fee, is no larger and costs no more
\* than one with a fee as wide as any, and no less than the constant part.
LEMMA SizeGrows ==
  ASSUME BuilderTypeOK, NEW outs \in Seq(OutputType), NEW more \in Seq(OutputType),
         Len(outs) <= Len(more),
         \A i \in 1..Len(outs) : \A k \in Kinds : outs[i].amount[k] <= more[i].amount[k],
         NEW f \in Nat, NEW g \in Nat, g = 0 \/ g >= WideFee
  PROVE  /\ SizeOf(outs, f) <= SizeOf(more, g)
         /\ SizeOf(outs, f) \in Nat /\ SizeOf(more, g) \in Nat
         /\ CostOf(outs, f) <= CostOf(more, g)
         /\ CostOf(outs, f) \in Nat /\ CostOf(outs, f) >= WideFee
         /\ CostOf(more, g) \in Nat
<1>1. PICK rest \in Nat : \A o \in Seq(OutputType) : \A h \in Nat :
        SizeOf(o, h) = rest + OutputSizes(o) + Width(h)
  BY SizeParts
<1>2. /\ OutputSizes(outs) <= OutputSizes(more)
      /\ OutputSizes(outs) \in Nat /\ OutputSizes(more) \in Nat
  BY OutputSizesGrow
<1>3. /\ Width(f) \in Nat /\ Width(g) \in Nat /\ Width(f) <= Width(g)
  BY DEF Width
<1> DEFINE a == SizeOf(outs, f)
           b == SizeOf(more, g)
           s == ScriptFee(Referenced)
<1>4. a = rest + OutputSizes(outs) + Width(f) /\ b = rest + OutputSizes(more) + Width(g)
  BY <1>1
<1>5. /\ CostOf(outs, f) = FeeConstant + FeePerByte * a + s
      /\ CostOf(more, g) = FeeConstant + FeePerByte * b + s
  BY DEF CostOf, MinFee, SizeOf
<1>6. s \in Nat
  <2>1. Referenced \in Nat
    BY ReferencedAmounts
  <2> QED BY <2>1, ScriptFeeGrows
<1> HIDE DEF a, b, s
<1>7. a \in Nat /\ b \in Nat /\ a <= b
  BY <1>2, <1>3, <1>4
<1>8. FeeConstant \in Nat /\ FeePerByte \in Nat /\ WideFee \in Nat /\ WideFee <= FeeConstant
  BY BuilderAssumption, FeeWidthAssumption
<1>9. FeePerByte * a \in Nat /\ FeePerByte * b \in Nat /\ FeePerByte * a <= FeePerByte * b
  BY <1>7, <1>8
<1>10. /\ CostOf(outs, f) <= CostOf(more, g)
       /\ CostOf(outs, f) \in Nat /\ CostOf(outs, f) >= WideFee
       /\ CostOf(more, g) \in Nat
  BY <1>5, <1>6, <1>8, <1>9
<1> QED BY <1>7, <1>10 DEF a, b

\* What a body costs is a natural number, and the constant part of its fee at
\* least.
LEMMA EstimateAmounts ==
  ASSUME BuilderTypeOK
  PROVE  /\ EstimatedFee \in Nat /\ EstimatedFee >= WideFee
         /\ \A outs \in Seq(OutputType) : \A f \in Nat :
              CostOf(outs, f) \in Nat
<1>1. ASSUME NEW outs \in Seq(OutputType), NEW f \in Nat
      PROVE  /\ CostOf(outs, f) \in Nat
             /\ CostOf(outs, f) >= WideFee
  <2>1. \A i \in 1..Len(outs) : \A k \in Kinds : outs[i].amount[k] <= outs[i].amount[k]
    <3>1. \A i \in 1..Len(outs) : outs[i] \in OutputType
      OBVIOUS
    <3> QED BY <3>1 DEF OutputType, Amounts
  <2>2. Len(outs) \in Nat /\ Len(outs) <= Len(outs)
    BY LenProperties
  <2> QED BY <2>1, <2>2, SizeGrows
<1>2. outputs \in Seq(OutputType) /\ fee \in Nat
  BY DEF BuilderTypeOK
<1> QED BY <1>1, <1>2 DEF EstimatedFee, CostOf

\* build asks the selectors for all that the inputs lack: with any more that
\* covers the request, the inputs cover the outputs.
LEMMA RequestCovers ==
  ASSUME BuilderTypeOK, NEW a
  PROVE  /\ Unfulfilled(a) \in Amounts /\ Remaining \in Amounts
         /\ \A x \in Assets : \A d \in Nat :
              Unfulfilled(a)[x] <= Remaining[x] + d => Paid(outputs)[x] <= Provided[x] + d
<1> DEFINE net == ask.withdrawn - Deposits(ask)
<1>1. /\ \A x \in Assets : x \in Kinds /\ x # ADA
      /\ ADA \in Kinds
  BY AssetsAssumption DEF Kinds
<1>2. /\ \A k \in Kinds : Worth(inputs)[k] \in Nat /\ Paid(outputs)[k] \in Nat
                           /\ ask.mint[k] \in Int
      /\ net \in Int /\ EstimatedFee \in Nat
      /\ \A x \in Assets : Provided[x] = Worth(inputs)[x] + ask.mint[x]
  <2>1. /\ Worth(inputs) \in Amounts /\ Paid(outputs) \in Amounts /\ ask.mint \in Value
        /\ ask.withdrawn \in Nat /\ Deposits(ask) \in Nat
        /\ \A k \in Kinds :
             Provided[k] = Worth(inputs)[k] + ask.mint[k]
                             + IF k = ADA THEN ask.withdrawn - Deposits(ask) ELSE 0
    BY BuilderAmounts
  <2>2. \A k \in Kinds : Worth(inputs)[k] \in Nat /\ Paid(outputs)[k] \in Nat
                          /\ ask.mint[k] \in Int
    BY <2>1 DEF Amounts, Value
  <2>3. net \in Int /\ EstimatedFee \in Nat
    BY <2>1, EstimateAmounts
  <2>4. ASSUME NEW x \in Assets
        PROVE  Provided[x] = Worth(inputs)[x] + ask.mint[x]
    <3>1. x \in Kinds /\ x # ADA
      BY <1>1
    <3>2. Provided[x] = Worth(inputs)[x] + ask.mint[x] + 0
      BY <2>1, <3>1
    <3> QED BY <2>2, <3>1, <3>2
  <2> QED BY <2>2, <2>3, <2>4
<1>3. /\ \A k \in Kinds : Minted(ask.mint)[k]
                            = IF k # ADA /\ ask.mint[k] > 0 THEN ask.mint[k] ELSE 0
      /\ \A k \in Kinds : Burned(ask.mint)[k]
                            = IF k # ADA /\ 0 - ask.mint[k] > 0 THEN 0 - ask.mint[k] ELSE 0
  BY <1>1, <1>2 DEF Minted, Burned, KeepPositive, WithCoin, Zero, --
<1>4. \A n \in Int : \A k \in Kinds : Coin(n)[k] = IF k = ADA THEN n ELSE 0
  BY DEF Coin, Only, Zero
<1>5. /\ \A k \in Kinds : SelectedAmount[k] = Worth(inputs)[k] + Minted(ask.mint)[k] + Coin(net)[k]
      /\ \A k \in Kinds : RequestedAmount[k]
                            = Paid(outputs)[k] + Burned(ask.mint)[k] + Coin(EstimatedFee)[k]
  BY DEF SelectedAmount, RequestedAmount, ++
<1>6. /\ \A k \in Kinds : SelectedAmount[k] \in Int /\ RequestedAmount[k] \in Int
      /\ \A x \in Assets : SelectedAmount[x]
                             = Worth(inputs)[x] + (IF ask.mint[x] > 0 THEN ask.mint[x] ELSE 0)
      /\ \A x \in Assets : RequestedAmount[x]
                             = Paid(outputs)[x] + (IF 0 - ask.mint[x] > 0 THEN 0 - ask.mint[x] ELSE 0)
  <2> HIDE DEF net
  <2>1. \A k \in Kinds :
          /\ Minted(ask.mint)[k] \in Int /\ Burned(ask.mint)[k] \in Int
          /\ Coin(net)[k] \in Int /\ Coin(EstimatedFee)[k] \in Int
    BY <1>2, <1>3, <1>4
  <2>2. \A x \in Assets : /\ Coin(net)[x] = 0 /\ Coin(EstimatedFee)[x] = 0
                          /\ Minted(ask.mint)[x] = IF ask.mint[x] > 0 THEN ask.mint[x] ELSE 0
                          /\ Burned(ask.mint)[x] = IF 0 - ask.mint[x] > 0 THEN 0 - ask.mint[x] ELSE 0
    BY <1>1, <1>2, <1>3, <1>4
  <2> QED BY <1>1, <1>2, <1>5, <2>1, <2>2
<1>7. /\ \A x \in Assets : Trimmed[x] = IF RequestedAmount[x] # 0 THEN SelectedAmount[x] ELSE 0
      /\ Trimmed[ADA] = SelectedAmount[ADA]
      /\ \A k \in Kinds : Trimmed[k] \in Int
  <2>1. \A k \in Kinds : Trimmed[k] = IF k = ADA \/ k \in AssetsOf(RequestedAmount)
                                      THEN SelectedAmount[k] ELSE 0
    BY DEF Trimmed, KeepAssets
  <2> QED BY <1>1, <1>6, <2>1 DEF AssetsOf
<1> DEFINE left == KeepPositive(Trimmed -- RequestedAmount)
           missing == KeepPositive(RequestedAmount -- Trimmed)
           change == MinLovelace(SelectedAmount -- Trimmed)
           short == missing[ADA]
           coin == AtLeastZero(IF a.change # NoAddress /\ ~CanMerge(a) /\ short < 0
                               THEN short + change ELSE short)
<1>8. /\ \A x \in Assets : left[x] = IF Trimmed[x] - RequestedAmount[x] > 0
                                     THEN Trimmed[x] - RequestedAmount[x] ELSE 0
      /\ \A x \in Assets : missing[x] = IF RequestedAmount[x] - Trimmed[x] > 0
                                        THEN RequestedAmount[x] - Trimmed[x] ELSE 0
      /\ left[ADA] \in Int /\ missing[ADA] \in Int
      /\ left = [k \in Kinds |-> left[k]] /\ missing = [k \in Kinds |-> missing[k]]
  BY <1>1, <1>6, <1>7 DEF KeepPositive, --
<1>9. change \in Nat
  <2>1. SelectedAmount -- Trimmed \in Value
    BY <1>6, <1>7 DEF --, Value
  <2> QED BY <2>1, MinLovelaceType
<1>10. Remaining = WithCoin(left, AtLeastZero(left[ADA]))
  BY DEF Remaining
<1>11. Unfulfilled(a) = WithCoin(missing, coin)
  BY DEF Unfulfilled
<1> HIDE DEF left, missing, change
<1>12. coin \in Nat /\ AtLeastZero(left[ADA]) \in Nat
  <2>1. \A n \in Int : AtLeastZero(n) \in Nat
    BY DEF AtLeastZero
  <2>2. short \in Int /\ short + change \in Int
    BY <1>8, <1>9
  <2> QED BY <1>8, <2>1, <2>2
<1> HIDE DEF coin
<1>13. \A k \in Kinds : /\ Remaining[k] = IF k = ADA THEN AtLeastZero(left[ADA]) ELSE left[k]
                        /\ Unfulfilled(a)[k] = IF k = ADA THEN coin ELSE missing[k]
  BY <1>8, <1>10, <1>11 DEF WithCoin
<1>14. ASSUME NEW x \in Assets
       PROVE  left[x] \in Nat /\ missing[x] \in Nat
  <2>1. Trimmed[x] \in Int /\ RequestedAmount[x] \in Int
    BY <1>1, <1>6, <1>7
  <2>2. /\ left[x] = IF Trimmed[x] - RequestedAmount[x] > 0
                     THEN Trimmed[x] - RequestedAmount[x] ELSE 0
        /\ missing[x] = IF RequestedAmount[x] - Trimmed[x] > 0
                        THEN RequestedAmount[x] - Trimmed[x] ELSE 0
    BY <1>8
  <2> QED BY <2>1, <2>2
<1>15. Remaining \in Amounts
  <2>1. \A k \in Kinds : Remaining[k] \in Nat
    BY <1>12, <1>13, <1>14 DEF Kinds
  <2>2. Remaining = [k \in Kinds |-> Remaining[k]]
    BY <1>8, <1>10 DEF WithCoin
  <2> QED BY <2>1, <2>2 DEF Amounts
<1>16. Unfulfilled(a) \in Amounts
  <2>1. \A k \in Kinds : Unfulfilled(a)[k] \in Nat
    BY <1>12, <1>13, <1>14 DEF Kinds
  <2>2. Unfulfilled(a) = [k \in Kinds |-> Unfulfilled(a)[k]]
    BY <1>8, <1>11 DEF WithCoin
  <2> QED BY <2>1, <2>2 DEF Amounts
<1>17. ASSUME NEW x \in Assets, NEW d \in Nat, Unfulfilled(a)[x] <= Remaining[x] + d
       PROVE  Paid(outputs)[x] <= Provided[x] + d
  <2> DEFINE w == Worth(inputs)[x]
             m == ask.mint[x]
             p == Paid(outputs)[x]
             s == SelectedAmount[x]
             r == RequestedAmount[x]
             t == Trimmed[x]
  <2>1. w \in Nat /\ p \in Nat /\ m \in Int /\ Provided[x] = w + m
    BY <1>1, <1>2
  <2>2. /\ s = w + (IF m > 0 THEN m ELSE 0)
        /\ r = p + (IF 0 - m > 0 THEN 0 - m ELSE 0)
        /\ t = IF r # 0 THEN s ELSE 0
    BY <1>6, <1>7
  <2>3. (IF r - t > 0 THEN r - t ELSE 0) <= (IF t - r > 0 THEN t - r ELSE 0) + d
    BY <1>1, <1>8, <1>13, <1>17
  <2> HIDE DEF w, m, p, s, r, t
  <2>4. p <= (w + m) + d
    BY <2>1, <2>2, <2>3
  <2> QED BY <2>1, <2>4 DEF p
<1> QED BY <1>15, <1>16, <1>17

-----------------------------------------------------------------------------
(* What a selector returns becomes inputs *)

\* Every UTxO that is returned is returned once.
LEMMA PickedCounts ==
  ASSUME SelectorInv, pc = "selected"
  PROVE  /\ Members(picked) \in SUBSET UTxOs /\ Members(picked) \subseteq job.pool
         /\ \A u \in UTxOs : TimesPicked(u) = IF u \in Members(picked) THEN 1 ELSE 0
         /\ drawn = WorthOf(Members(picked))
<1>1. /\ level = 0 /\ outer = NoOuter /\ PickedOnce /\ picked \in Seq(UTxOs)
      /\ drawn = WorthOf(Members(AllPicked))
  BY DEF SelectorInv, SelectionInv, TypeOK, TakenInv, PoolInv, SumInv
<1>2. AllPicked = picked
  BY <1>1 DEF AllPicked, NoOuter
<1>3. DOMAIN picked = 1..Len(picked) /\ \A i \in 1..Len(picked) : picked[i] \in UTxOs
  BY <1>1
<1>4. \A i, j \in 1..Len(picked) : picked[i] = picked[j] => i = j
  BY <1>1, <1>2 DEF PickedOnce
<1>5. \A i \in 1..Len(picked) : picked[i] \in job.pool
  BY <1>1, <1>2 DEF PickedOnce
<1>6. ASSUME NEW u \in Members(picked)
      PROVE  TimesPicked(u) = 1
  <2>1. PICK i \in 1..Len(picked) : picked[i] = u
    BY DEF Members
  <2>2. {j \in DOMAIN picked : picked[j] = u} = {i}
    BY <1>3, <1>4, <2>1
  <2> QED BY <2>2, FS_Singleton DEF TimesPicked
<1>7. ASSUME NEW u, u \notin Members(picked)
      PROVE  TimesPicked(u) = 0
  <2>1. {j \in DOMAIN picked : picked[j] = u} = {}
    BY <1>3, <1>7 DEF Members
  <2> QED BY <2>1, FS_EmptySet DEF TimesPicked
<1>8. Members(picked) \in SUBSET UTxOs /\ Members(picked) \subseteq job.pool
  BY <1>3, <1>5 DEF Members
<1>9. drawn = WorthOf(Members(picked))
  BY <1>1, <1>2
<1> QED BY <1>6, <1>7, <1>8, <1>9

\* With them the inputs are worth what they were and what was drawn.
LEMMA WorthPicked ==
  ASSUME BuilderTypeOK, SelectorInv, pc = "selected",
         NEW ins, ins = [u \in UTxOs |-> inputs[u] + TimesPicked(u)]
  PROVE  /\ ins \in [UTxOs -> Nat] /\ drawn \in Amounts
         /\ \A k \in Kinds : Worth(ins)[k] = Worth(inputs)[k] + drawn[k]
         /\ \A u \in UTxOs : ins[u] = inputs[u] + IF u \in Members(picked) THEN 1 ELSE 0
<1> DEFINE M == Members(picked)
<1>1. /\ M \in SUBSET UTxOs /\ drawn = WorthOf(M)
      /\ \A u \in UTxOs : TimesPicked(u) = IF u \in M THEN 1 ELSE 0
  BY PickedCounts
<1>2. drawn \in Amounts
  BY DEF SelectorInv, SelectionInv, TypeOK
<1>3. \A u \in UTxOs : inputs[u] \in Nat /\ ins[u] = inputs[u] + IF u \in M THEN 1 ELSE 0
  BY <1>1 DEF BuilderTypeOK
<1>4. ins \in [UTxOs -> Nat]
  BY <1>3
<1>5. \A u \in UTxOs : \A k \in Kinds : Amount[u][k] \in Nat
  BY UTxOAssumption DEF Amounts
<1> HIDE DEF M
<1>6. ASSUME NEW k \in Kinds
      PROVE  Worth(ins)[k] = Worth(inputs)[k] + drawn[k]
  <2> DEFINE f == [u \in UTxOs |-> inputs[u] * Amount[u][k]]
             g == [u \in UTxOs |-> IF u \in M THEN Amount[u][k] ELSE 0]
             h == [u \in UTxOs |-> ins[u] * Amount[u][k]]
             e == [u \in M |-> Amount[u][k]]
  <2>1. Worth(ins)[k] = Total(h, UTxOs) /\ Worth(inputs)[k] = Total(f, UTxOs)
    BY DEF Worth
  <2>2. drawn[k] = Total(e, M)
    BY <1>1 DEF WorthOf
  <2>3. \A u \in UTxOs : f[u] \in Nat /\ g[u] \in Nat /\ h[u] = f[u] + g[u]
    <3> SUFFICES ASSUME NEW u \in UTxOs
                 PROVE  f[u] \in Nat /\ g[u] \in Nat /\ h[u] = f[u] + g[u]
      OBVIOUS
    <3> DEFINE n == inputs[u]
               a == Amount[u][k]
    <3>1. n \in Nat /\ a \in Nat
      BY <1>3, <1>5
    <3>2. f[u] = n * a /\ g[u] = (IF u \in M THEN a ELSE 0)
          /\ h[u] = (n + IF u \in M THEN 1 ELSE 0) * a
      BY <1>3
    <3> HIDE DEF f, g, h, n, a
    <3>3. n * a \in Nat /\ (n + 1) * a = n * a + a /\ (n + 0) * a = n * a
      BY <3>1
    <3> QED BY <3>1, <3>2, <3>3
  <2>4. /\ \A u \in M : e[u] = g[u]
        /\ \A u \in UTxOs \ M : g[u] = 0
    BY <1>1
  <2> HIDE DEF f, g, h, e
  <2>5. Total(h, UTxOs) = Total(f, UTxOs) + Total(g, UTxOs)
    BY <2>3, UTxOAssumption, TotalPlus
  <2>6. Total(g, UTxOs) = Total(e, M)
    BY <1>1, <2>4, TotalSkip
  <2> QED BY <2>1, <2>2, <2>5, <2>6
<1> QED BY <1>2, <1>3, <1>4, <1>6 DEF M

-----------------------------------------------------------------------------
(* The steps of the builder *)

\* A build that returns or raises leaves inputs that were offered, and outputs
\* and a fee that the next build can start from.
LEMMA EndInv ==
  ASSUME BuilderInv, SelectorInv', NEW reason, End(reason),
         UNCHANGED <<inputs, ask, given>>, before' \in {before, outputs},
         collateral' \in [inputs : SUBSET UTxOs, back : Nat], FailureKeepsOutputs',
         outputs' \in Seq(OutputType), fee' \in Nat, fee' = 0 \/ fee' >= WideFee
  PROVE  BuilderInv'
<1>1. stage' = "idle" /\ args' = NoArgs /\ original' = <<>> /\ rescued' = FALSE
  BY DEF End
<1>2. BuilderTypeOK'
  <2>1. args' \in [change : ChangeAddresses \cup {NoAddress}, merge : BOOLEAN]
    BY <1>1 DEF NoArgs
  <2>2. original' \in Seq(OutputType)
    BY <1>1, EmptySeq
  <2>3. stage' \in Stages /\ rescued' \in BOOLEAN
    BY <1>1 DEF Stages
  <2> QED BY <2>1, <2>2, <2>3 DEF BuilderInv, BuilderTypeOK
<1>3. OfferedInv'
  BY <1>1 DEF BuilderInv, OfferedInv, InputSet
<1>4. JobInv' /\ FeeInv' /\ PassInv' /\ BodyInv' /\ KeptInv'
  BY <1>1 DEF JobInv, FeeInv, PassInv, BodyInv, KeptInv
<1> QED BY <1>2, <1>3, <1>4 DEF BuilderInv

LEMMA SameTypes ==
  ASSUME BuilderInv
  PROVE  /\ inputs \in [UTxOs -> Nat] /\ outputs \in Seq(OutputType)
         /\ original \in Seq(OutputType) /\ fee \in Nat /\ (fee = 0 \/ fee >= WideFee)
         /\ BuilderTypeOK /\ SelectorInv
         /\ collateral \in [inputs : SUBSET UTxOs, back : Nat]
BY DEF BuilderInv, BuilderTypeOK, FeeInv

\* An edit changes one field, between two builds.
LEMMA AskInv ==
  ASSUME BuilderInv, NEW new, Ask(new), new \in AskType,
         IsFiniteSet(new.certs), IsFiniteSet(new.proposals),
         ask.potential \subseteq new.potential, ask.wallet => new.wallet
  PROVE  BuilderInv'
<1>1. /\ stage = "idle" /\ ask' = new
      /\ outcome' = "none" /\ before' = <<>>
      /\ UNCHANGED <<vars, inputs, outputs, given, fee, stage, args, original, collateral, rescued>>
  BY DEF Ask, Edit, Idling
<1>2. SelectorInv'
  BY <1>1, SameSelector DEF BuilderInv
<1>3. BuilderTypeOK'
  BY <1>1, EmptySeq DEF BuilderInv, BuilderTypeOK
<1>4. OfferedInv'
  <2>1. InputSet(inputs)' = InputSet(inputs)
    BY <1>1 DEF InputSet
  <2> QED BY <1>1, <2>1 DEF BuilderInv, OfferedInv
<1>5. JobInv' /\ FeeInv' /\ PassInv' /\ BodyInv' /\ KeptInv'
  BY <1>1 DEF BuilderInv, JobInv, FeeInv, PassInv, BodyInv, KeptInv, FailureKeepsOutputs
<1> QED BY <1>2, <1>3, <1>4, <1>5 DEF BuilderInv

LEMMA UserEditInv == BuilderInv /\ UserEdit => BuilderInv'
<1> SUFFICES ASSUME BuilderInv, UserEdit PROVE BuilderInv'
  OBVIOUS
<1>0. ask \in AskType /\ IsFiniteSet(ask.certs) /\ IsFiniteSet(ask.proposals)
  BY DEF BuilderInv, BuilderTypeOK
<1>1. ASSUME NEW u \in UTxOs, AddInput(u)
      PROVE  BuilderInv'
  <2>1. /\ stage = "idle" /\ outcome' = "none" /\ before' = <<>>
        /\ inputs' = [inputs EXCEPT ![u] = @ + 1] /\ given' = [given EXCEPT ![u] = @ + 1]
        /\ UNCHANGED <<vars, outputs, ask, fee, stage, args, original, collateral, rescued>>
    BY <1>1 DEF AddInput, Edit, Idling
  <2>2. SelectorInv'
    BY <2>1, SameSelector DEF BuilderInv
  <2>3. inputs \in [UTxOs -> Nat] /\ given \in [UTxOs -> Nat]
    BY DEF BuilderInv, BuilderTypeOK
  <2>4. BuilderTypeOK'
    <3>1. inputs' \in [UTxOs -> Nat] /\ given' \in [UTxOs -> Nat]
      BY <2>1, <2>3
    <3> QED BY <2>1, <3>1, EmptySeq DEF BuilderInv, BuilderTypeOK
  <2>5. \A v \in UTxOs : /\ inputs[v] \in Nat /\ given[v] \in Nat
                         /\ inputs'[v] = inputs[v] + IF v = u THEN 1 ELSE 0
                         /\ given'[v] = given[v] + IF v = u THEN 1 ELSE 0
    BY <2>1, <2>3
  <2>6. \A v \in UTxOs : /\ inputs[v] = given[v] => inputs'[v] = given'[v]
                         /\ inputs[v] = given[v] + 1 => inputs'[v] = given'[v] + 1
    BY <2>5
  <2>7. OfferedInv'
    BY <2>1, <2>6 DEF BuilderInv, OfferedInv
  <2>8. JobInv' /\ FeeInv' /\ PassInv' /\ BodyInv' /\ KeptInv'
    BY <2>1 DEF BuilderInv, JobInv, FeeInv, PassInv, BodyInv, KeptInv, FailureKeepsOutputs
  <2> QED BY <2>2, <2>4, <2>7, <2>8 DEF BuilderInv
<1>2. ASSUME NEW o \in Outputs, AddOutput(o)
      PROVE  BuilderInv'
  <2>1. /\ stage = "idle" /\ outputs' = Append(outputs, o)
        /\ outcome' = "none" /\ before' = <<>>
        /\ UNCHANGED <<vars, inputs, ask, given, fee, stage, args, original, collateral, rescued>>
    BY <1>2 DEF AddOutput, Edit, Idling
  <2>2. SelectorInv'
    BY <2>1, SameSelector DEF BuilderInv
  <2>3. o \in OutputType
    BY BuilderAssumption DEF OutputType, Addresses
  <2>4. BuilderTypeOK'
    BY <2>1, <2>3, EmptySeq DEF BuilderInv, BuilderTypeOK
  <2>5. OfferedInv'
    BY <2>1 DEF BuilderInv, OfferedInv, InputSet
  <2>6. JobInv' /\ FeeInv' /\ PassInv' /\ BodyInv' /\ KeptInv'
    BY <2>1 DEF BuilderInv, JobInv, FeeInv, PassInv, BodyInv, KeptInv, FailureKeepsOutputs
  <2> QED BY <2>2, <2>4, <2>5, <2>6 DEF BuilderInv
<1>3. ASSUME NEW u \in UTxOs, ExcludeInput(u)
      PROVE  BuilderInv'
  <2> DEFINE new == [ask EXCEPT !.excluded = @ \cup {u}]
  <2>1. new \in AskType /\ IsFiniteSet(new.certs) /\ IsFiniteSet(new.proposals)
        /\ new.potential = ask.potential /\ new.wallet = ask.wallet
    BY <1>0 DEF AskType
  <2>2. Ask(new)
    BY <1>3 DEF ExcludeInput
  <2> QED BY <2>1, <2>2, AskInv
<1>4. ASSUME NEW u \in Offered, AddPotentialInput(u)
      PROVE  BuilderInv'
  <2> DEFINE new == [ask EXCEPT !.potential = @ \cup {u}]
  <2>1. new \in AskType /\ IsFiniteSet(new.certs) /\ IsFiniteSet(new.proposals)
        /\ new.potential = ask.potential \cup {u} /\ new.wallet = ask.wallet
    BY <1>0, BuilderAssumption DEF AskType
  <2>2. Ask(new)
    BY <1>4 DEF AddPotentialInput
  <2> QED BY <2>1, <2>2, AskInv
<1>5. ASSUME AddInputAddress
      PROVE  BuilderInv'
  <2> DEFINE new == [ask EXCEPT !.wallet = TRUE]
  <2>1. new \in AskType /\ IsFiniteSet(new.certs) /\ IsFiniteSet(new.proposals)
        /\ new.potential = ask.potential /\ new.wallet
    BY <1>0 DEF AskType
  <2>2. Ask(new)
    BY <1>5 DEF AddInputAddress
  <2> QED BY <2>1, <2>2, AskInv
<1>6. ASSUME NEW m \in Mints, SetMint(m)
      PROVE  BuilderInv'
  <2> DEFINE new == [ask EXCEPT !.mint = m]
  <2>1. new \in AskType /\ IsFiniteSet(new.certs) /\ IsFiniteSet(new.proposals)
        /\ new.potential = ask.potential /\ new.wallet = ask.wallet
    BY <1>0 DEF AskType
  <2>2. Ask(new)
    BY <1>6 DEF SetMint
  <2> QED BY <2>1, <2>2, AskInv
<1>7. ASSUME NEW n \in Withdrawals, SetWithdrawals(n)
      PROVE  BuilderInv'
  <2> DEFINE new == [ask EXCEPT !.withdrawn = n]
  <2>1. new \in AskType /\ IsFiniteSet(new.certs) /\ IsFiniteSet(new.proposals)
        /\ new.potential = ask.potential /\ new.wallet = ask.wallet
    BY <1>0, BuilderAssumption DEF AskType
  <2>2. Ask(new)
    BY <1>7 DEF SetWithdrawals
  <2> QED BY <2>1, <2>2, AskInv
<1>8. ASSUME NEW c \in Certificates, AddCertificate(c)
      PROVE  BuilderInv'
  <2> DEFINE new == [ask EXCEPT !.certs = @ \cup {c}]
  <2>1. new \in AskType /\ new.certs = ask.certs \cup {c} /\ IsFiniteSet(new.proposals)
        /\ new.potential = ask.potential /\ new.wallet = ask.wallet
    BY <1>0 DEF AskType
  <2>2. Ask(new)
    BY <1>8 DEF AddCertificate
  <2>3. IsFiniteSet(new.certs)
    BY <1>0, <2>1, FS_AddElement
  <2> QED BY <2>1, <2>2, <2>3, AskInv
<1>9. ASSUME NEW p \in Proposals, AddProposal(p)
      PROVE  BuilderInv'
  <2> DEFINE new == [ask EXCEPT !.proposals = @ \cup {p}]
  <2>1. new \in AskType /\ new.proposals = ask.proposals \cup {p} /\ IsFiniteSet(new.certs)
        /\ new.potential = ask.potential /\ new.wallet = ask.wallet
    BY <1>0 DEF AskType
  <2>2. Ask(new)
    BY <1>9 DEF AddProposal
  <2>3. IsFiniteSet(new.proposals)
    BY <1>0, <2>1, FS_AddElement
  <2> QED BY <2>1, <2>2, <2>3, AskInv
<1>10. ASSUME NEW n \in Donations, AddTreasuryDonation(n)
       PROVE  BuilderInv'
  <2> DEFINE new == [ask EXCEPT !.donation = n]
  <2>1. new \in AskType /\ IsFiniteSet(new.certs) /\ IsFiniteSet(new.proposals)
        /\ new.potential = ask.potential /\ new.wallet = ask.wallet
    BY <1>0, BuilderAssumption DEF AskType
  <2>2. Ask(new)
    BY <1>10 DEF AddTreasuryDonation
  <2> QED BY <2>1, <2>2, AskInv
<1> QED BY <1>1, <1>2, <1>3, <1>4, <1>5, <1>6, <1>7, <1>8, <1>9, <1>10 DEF UserEdit

\* What build computes before it selects depends on these fields only.
LEMMA SameRequest ==
  ASSUME UNCHANGED <<inputs, outputs, ask, fee, given, collateral>>, NEW a, args' = a
  PROVE  /\ Pool' = Pool /\ Remaining' = Remaining /\ Unfulfilled(args)' = Unfulfilled(a)
<1>1. Pool' = Pool
  BY DEF Pool, InputSet
<1>2. EstimatedFee' = EstimatedFee
  <2>1. TxSize(TxBody(outputs, fee))' = TxSize(TxBody(outputs, fee))
    BY DEF TxBody, TxSize, InputSet
  <2>2. Referenced' = Referenced
    BY DEF Referenced
  <2> QED BY <2>1, <2>2 DEF EstimatedFee, MinFee
<1>3. SelectedAmount' = SelectedAmount
  BY DEF SelectedAmount, Worth, Deposits, TotalKeyDeposit, TotalProposalDeposit,
         StatedDeposits, CredentialsOf, CertsOf
<1>4. RequestedAmount' = RequestedAmount
  BY <1>2 DEF RequestedAmount, Paid
<1>5. Trimmed' = Trimmed
  BY <1>3, <1>4 DEF Trimmed
<1>6. Remaining' = Remaining
  BY <1>4, <1>5 DEF Remaining
<1>7. CanMerge(args)' = CanMerge(a)
  BY DEF CanMerge
<1>8. Unfulfilled(args)' = Unfulfilled(a)
  BY <1>3, <1>4, <1>5, <1>7 DEF Unfulfilled
<1> QED BY <1>1, <1>6, <1>8

\* What is provided depends on these.
LEMMA SameProvided ==
  ASSUME UNCHANGED <<inputs, ask>>
  PROVE  Provided' = Provided /\ InputSet(inputs)' = InputSet(inputs)
BY DEF Provided, Worth, Deposits, TotalKeyDeposit, TotalProposalDeposit,
       StatedDeposits, CredentialsOf, CertsOf, InputSet

LEMMA PoolSubset ==
  ASSUME BuilderTypeOK
  PROVE  Pool \in SUBSET UTxOs
BY DEF BuilderTypeOK, AskType, Pool

LEMMA BuildStartInv ==
  ASSUME BuilderInv, NEW a \in Args, BuildStart(a)
  PROVE  BuilderInv'
<1>0. BuilderTypeOK /\ SelectorInv /\ OfferedInv /\ FeeInv
      /\ outputs \in Seq(OutputType) /\ fee \in Nat /\ (fee = 0 \/ fee >= WideFee)
      /\ collateral \in [inputs : SUBSET UTxOs, back : Nat]
  BY SameTypes DEF BuilderInv
<1>1. stage = "idle" /\ before' = outputs
      /\ UNCHANGED <<inputs, outputs, ask, given, edits, fee, collateral, tx, shared>>
  BY DEF BuildStart, Idling
<1>2. ASSUME NEW reason, End(reason), UNCHANGED vars
      PROVE  BuilderInv'
  <2>1. FailureKeepsOutputs'
    BY <1>1 DEF FailureKeepsOutputs
  <2> QED BY <1>0, <1>1, <1>2, <2>1, SameSelector, EndInv
<1>3. CASE ~Conflict /\ ~TooLarge /\ ~ScriptsTooLarge
  <2> DEFINE U == Unfulfilled(a)
             go == [chain |-> Chain, draws |-> FALSE, pool |-> Pool,
                    request |-> Unfulfilled(a), existing |-> Remaining, limit |-> NoLimit,
                    respect |-> ~CanMerge(a)]
  <2>1. args' = a /\ UNCHANGED <<original, rescued>>
        /\ IF ValueLt(Zero, U)
           THEN stage' = "selecting" /\ StartSelection(go)
           ELSE stage' = "collateral" /\ UNCHANGED vars
    BY <1>3 DEF BuildStart
  <2>2. U \in Amounts /\ Remaining \in Amounts
        /\ \A x \in Assets : \A d \in Nat :
             U[x] <= Remaining[x] + d => Paid(outputs)[x] <= Provided[x] + d
    BY <1>0, RequestCovers
  <2>3. BuilderTypeOK'
    <3>1. args' \in [change : ChangeAddresses \cup {NoAddress}, merge : BOOLEAN]
      BY <2>1 DEF Args
    <3>2. stage' \in Stages
      BY <2>1 DEF Stages
    <3> QED BY <1>0, <1>1, <2>1, <3>1, <3>2 DEF BuilderTypeOK
  <2>4. OfferedInv'
    <3>1. InputSet(inputs)' = InputSet(inputs)
      BY <1>1 DEF InputSet
    <3>2. \A u \in InputSet(inputs) : u \notin ask.excluded
      BY <1>3 DEF Conflict
    <3> QED BY <1>0, <1>1, <3>1, <3>2 DEF OfferedInv
  <2>5. CASE ValueLt(Zero, U)
    <3>1. go \in JobType /\ go.chain # <<>>
      <4>1. CanMerge(a) \in BOOLEAN
        BY DEF CanMerge, Args
      <4>2. Chain \in Seq(SelectorNames) /\ Chain # <<>>
        BY BuilderAssumption
      <4>3. Pool \in SUBSET UTxOs
        BY <1>0, PoolSubset
      <4> QED BY <2>2, <4>1, <4>2, <4>3 DEF JobType
    <3>2. stage' = "selecting" /\ StartSelection(go) /\ job' = go
      BY <2>1, <2>5 DEF StartSelection
    <3>3. SelectorInv'
      BY <3>1, <3>2, StartSelector
    <3>4. Pool' = Pool /\ Remaining' = Remaining /\ Unfulfilled(args)' = Unfulfilled(a)
      BY <1>1, <2>1, SameRequest
    <3>5. JobInv'
      BY <3>2, <3>4 DEF JobInv
    <3>6. FeeInv' /\ PassInv' /\ BodyInv' /\ KeptInv'
      BY <1>0, <1>1, <3>2 DEF FeeInv, PassInv, BodyInv, KeptInv, FailureKeepsOutputs, Idling
    <3> QED BY <2>3, <2>4, <3>3, <3>5, <3>6 DEF BuilderInv
  <2>6. CASE ~ValueLt(Zero, U)
    <3>1. stage' = "collateral" /\ UNCHANGED vars
      BY <2>1, <2>6
    <3>2. SelectorInv'
      BY <1>0, <3>1, SameSelector
    <3>3. \A x \in Assets : U[x] = 0
      <4>1. Zero \in Amounts /\ \A k \in Kinds : Zero[k] = 0 /\ U[k] \in Nat
        BY <2>2 DEF Zero, Amounts
      <4>2. ValueLe(Zero, U)
        <5>1. \A k \in Kinds : Zero[k] <= U[k]
          BY <4>1
        <5> QED BY <2>2, <4>1, <5>1, LePointwise
      <4>3. U = Zero
        BY <2>6, <4>2 DEF ValueLt
      <4> QED BY <4>1, <4>3 DEF Kinds
    <3>4. Covers(outputs)
      <4> SUFFICES ASSUME NEW x \in Assets PROVE Paid(outputs)[x] <= Provided[x]
        BY DEF Covers
      <4>1. x \in Kinds /\ Remaining[x] \in Nat /\ Provided[x] \in Int
        BY <1>0, <2>2, BuilderAmounts DEF Kinds, Amounts, Value
      <4>2. U[x] <= Remaining[x] + 0
        BY <3>3, <4>1
      <4>3. Paid(outputs)[x] <= Provided[x] + 0
        BY <2>2, <4>2
      <4> QED BY <4>1, <4>3
    <3>5. Covers(outputs)'
      <4>1. Provided' = Provided
        BY <1>1, SameProvided
      <4> QED BY <1>1, <3>4, <4>1 DEF Covers, Paid
    <3>6. JobInv' /\ FeeInv' /\ PassInv' /\ BodyInv' /\ KeptInv'
      BY <1>0, <1>1, <3>1, <3>5 DEF JobInv, FeeInv, PassInv, BodyInv, KeptInv,
         FailureKeepsOutputs, Idling
    <3> QED BY <2>3, <2>4, <3>2, <3>6 DEF BuilderInv
  <2> QED BY <2>5, <2>6
<1>4. CASE Conflict
  BY <1>2, <1>4 DEF BuildStart
<1>5. CASE ~Conflict /\ TooLarge
  BY <1>2, <1>5 DEF BuildStart
<1>6. CASE ~Conflict /\ ~TooLarge /\ ScriptsTooLarge
  BY <1>2, <1>6 DEF BuildStart
<1> QED BY <1>3, <1>4, <1>5, <1>6

\* The call that is served stays the same one.
LEMMA SameJob == SelectionStep => job' = job
<1>1. \A amt : Raise(amt) => job' = job
  BY DEF Raise
<1>2. LargestFirstStep => job' = job
  BY <1>1 DEF LargestFirstStep, LargestFirstEmpty, LargestFirstPick, LargestFirstCovered
<1>3. RandomCoverStep => job' = job
  BY <1>1 DEF RandomCoverStep, RandomEmpty, RandomPick, RandomDrawRaises, RandomCovered
<1>4. ImproveStep => job' = job
  BY DEF ImproveStep, BeginImprove, ImproveDraw, ImproveEnd, ImproveDrawRaises, EndRound
<1>5. DrawCrashes \/ FinishStep => job' = job
  BY DEF DrawCrashes, FinishStep, RequestMinChange, ReturnAdditional, ReturnSelected
<1> QED BY <1>2, <1>3, <1>4, <1>5 DEF SelectionStep

\* The builder rests while a selector runs, or nothing happens.
LEMMA RestInv ==
  ASSUME BuilderInv, SelectorInv', UNCHANGED builderVars, stage = "selecting" => job' = job
  PROVE  BuilderInv'
<1>1. UNCHANGED <<inputs, outputs, ask, given, fee, stage, outcome, args, original, before,
                  collateral, rescued>>
  BY DEF builderVars, buildVars
<1>2. BuilderTypeOK' /\ OfferedInv' /\ FeeInv'
  BY <1>1 DEF BuilderInv, BuilderTypeOK, OfferedInv, FeeInv, InputSet
<1>3. /\ Pool' = Pool /\ Remaining' = Remaining /\ Unfulfilled(args)' = Unfulfilled(args)
      /\ Provided' = Provided /\ InputSet(inputs)' = InputSet(inputs)
  BY <1>1, SameRequest, SameProvided
<1>4. JobInv'
  BY <1>1, <1>3 DEF BuilderInv, JobInv
<1>5. PassInv'
  <2>1. Covers(outputs)' = Covers(outputs) /\ Covers(original)' = Covers(original)
    BY <1>1, <1>3 DEF Covers, Paid
  <2>2. Uncovered(original, fee)' = Uncovered(original, fee)
    BY <1>1, <1>3 DEF Uncovered, Paid
  <2>3. WithChange(original, fee)' = WithChange(original, fee)
    BY <1>1, <1>3 DEF WithChange, LeftOver, MergeChanges, MergeIndex, MergeTargets, Paid
  <2>4. CostOf(original, fee)' = CostOf(original, fee)
    BY <1>1, <1>3 DEF CostOf, SizeOf, MinFee, TxSize, TxBody, Referenced
  <2> QED BY <1>1, <2>1, <2>2, <2>3, <2>4 DEF BuilderInv, PassInv
<1>6. BodyInv'
  BY <1>1, <1>3 DEF BuilderInv, BodyInv, Paid, CostOf, SizeOf, MinFee, TxSize, TxBody, Referenced
<1>7. KeptInv'
  <2>1. TooLarge' = TooLarge
    BY <1>1 DEF TooLarge, TxBody, TxSize, InputSet
  <2> QED BY <1>1, <2>1 DEF BuilderInv, KeptInv, FailureKeepsOutputs, Idling
<1> QED BY <1>2, <1>4, <1>5, <1>6, <1>7 DEF BuilderInv

LEMMA SelectorStepInv == BuilderInv /\ SelectorStep => BuilderInv'
<1> SUFFICES ASSUME BuilderInv, SelectorStep PROVE BuilderInv'
  OBVIOUS
<1>1. SelectionStep /\ UNCHANGED builderVars
  BY DEF SelectorStep
<1>2. SelectorInv' /\ job' = job
  BY <1>1, StepSelector, SameJob DEF BuilderInv
<1> QED BY <1>1, <1>2, RestInv

\* Once select has returned or raised, the selectors are as they were at first.
LEMMA ForgetInv == ForgetSelection => SelectorInv'
<1>1. ForgetSelection => Init'
  BY DEF ForgetSelection, Init, Idle
<1>2. Init' => SelectorInv'
  BY InitSelector, PTL
<1> QED BY <1>1, <1>2

LEMMA SelectionFailedInv == BuilderInv /\ SelectionFailed => BuilderInv'
<1> SUFFICES ASSUME BuilderInv, SelectionFailed PROVE BuilderInv'
  OBVIOUS
<1>1. /\ stage = "selecting" /\ End("selection") /\ ForgetSelection
      /\ UNCHANGED <<inputs, outputs, ask, given, fee, before, collateral>>
  BY DEF SelectionFailed
<1>2. FailureKeepsOutputs'
  BY <1>1 DEF BuilderInv, KeptInv, FailureKeepsOutputs
<1> QED BY <1>1, <1>2, ForgetInv, SameTypes, EndInv

LEMMA SelectionDoneInv == BuilderInv /\ SelectionDone => BuilderInv'
<1> SUFFICES ASSUME BuilderInv, SelectionDone PROVE BuilderInv'
  OBVIOUS
<1>0. BuilderTypeOK /\ SelectorInv /\ OfferedInv /\ FeeInv /\ JobInv /\ KeptInv
  BY DEF BuilderInv
<1>1. /\ stage = "selecting" /\ pc = "selected" /\ stage' = "collateral"
      /\ inputs' = [u \in UTxOs |-> inputs[u] + TimesPicked(u)]
      /\ rescued' = (attempt > 1)
      /\ UNCHANGED <<outputs, ask, given, fee, args, original, before, collateral>>
  BY DEF SelectionDone
<1>2. SelectorInv'
  BY ForgetInv DEF SelectionDone
<1> DEFINE M == Members(picked)
<1>3. /\ inputs' \in [UTxOs -> Nat] /\ drawn \in Amounts
      /\ \A k \in Kinds : Worth(inputs')[k] = Worth(inputs)[k] + drawn[k]
      /\ \A u \in UTxOs : inputs'[u] = inputs[u] + IF u \in M THEN 1 ELSE 0
  BY <1>0, <1>1, WorthPicked
<1>4. M \subseteq Pool
  BY <1>0, <1>1, PickedCounts DEF JobInv
<1> HIDE DEF M
<1>5. BuilderTypeOK'
  <2>1. rescued' \in BOOLEAN /\ stage' \in Stages
    BY <1>1 DEF Stages
  <2> QED BY <1>0, <1>1, <1>3, <2>1 DEF BuilderTypeOK
<1>6. OfferedInv'
  <2>1. \A u \in UTxOs : inputs[u] \in Nat
    BY <1>0 DEF BuilderTypeOK
  <2>2. \A u \in InputSet(inputs)' : u \in UTxOs /\ (u \in InputSet(inputs) \/ u \in Pool)
    <3>1. \A u \in InputSet(inputs)' : u \in UTxOs /\ inputs'[u] > 0
      BY DEF InputSet
    <3>2. \A u \in UTxOs : u \notin M => inputs'[u] = inputs[u]
      BY <1>3, <2>1
    <3> QED BY <1>4, <3>1, <3>2 DEF InputSet
  <2>3. \A u \in Pool :
          \/ u \in ask.potential
          \/ /\ ask.wallet /\ Owner[u] = Wallet /\ u \notin WithScript
             /\ u \notin ask.excluded /\ u \notin InputSet(inputs)
    <3>1. /\ ask.wallet =>
               Pool = ask.potential \cup
                        ({u \in UTxOs : Owner[u] = Wallet} \
                           (InputSet(inputs) \cup ask.excluded \cup WithScript))
          /\ ~ask.wallet => Pool = ask.potential
      BY Zenon DEF Pool
    <3> QED BY <3>1
  <2>4. ASSUME NEW u \in UTxOs
        PROVE  \/ u \in ask.potential
               \/ inputs'[u] = given[u]
               \/ /\ inputs'[u] = given[u] + 1
                  /\ ask.wallet /\ Owner[u] = Wallet /\ u \notin WithScript
    <3>1. CASE u \in M /\ u \notin ask.potential
      <4>1. ask.wallet /\ Owner[u] = Wallet /\ u \notin WithScript /\ inputs[u] = 0
        BY <1>4, <2>1, <2>3, <3>1 DEF InputSet
      <4>2. inputs[u] = given[u] \/ inputs[u] = given[u] + 1
        BY <1>0, <3>1 DEF OfferedInv
      <4>3. given[u] \in Nat /\ inputs'[u] = inputs[u] + 1
        BY <1>0, <1>3, <3>1 DEF BuilderTypeOK
      <4> QED BY <4>1, <4>2, <4>3
    <3>2. CASE u \notin M
      <4>1. inputs'[u] = inputs[u]
        BY <1>3, <2>1, <3>2
      <4> QED BY <1>0, <4>1 DEF OfferedInv
    <3> QED BY <3>1, <3>2
  <2>5. ASSUME NEW u \in InputSet(inputs)'
        PROVE  u \in ask.potential \/ u \notin ask.excluded
    BY <1>0, <1>1, <2>2, <2>3 DEF OfferedInv
  <2> QED BY <1>1, <2>4, <2>5 DEF OfferedInv
<1>7. ASSUME ~rescued'
      PROVE  Covers(outputs)'
  <2>1. attempt = 1
    <3>1. attempt \in Nat /\ attempt >= 1
      <4>1. attempt \in 1..Len(job.chain) /\ job.chain \in Seq(SelectorNames)
        BY <1>0 DEF SelectorInv, SelectionInv, TypeOK, JobType
      <4> QED BY <4>1, LenProperties
    <3>2. ~(attempt > 1)
      BY <1>1, <1>7, Zenon
    <3> QED BY <3>1, <3>2
  <2>2. ValueLe(job.request, job.existing ++ drawn)
    BY <1>0, <1>1, <2>1 DEF SelectorInv, SelectionInv, FirstSelectorCovers, RequestCovered
  <2>3. job.request = Unfulfilled(args) /\ job.existing = Remaining
    BY <1>0, <1>1 DEF JobInv
  <2>4. /\ Unfulfilled(args) \in Amounts /\ Remaining \in Amounts
        /\ \A x \in Assets : \A d \in Nat :
             Unfulfilled(args)[x] <= Remaining[x] + d => Paid(outputs)[x] <= Provided[x] + d
    <3>1. job.request \in Amounts /\ job.existing \in Amounts
      BY <1>0 DEF SelectorInv, SelectionInv, TypeOK, JobType
    <3> QED BY <1>0, <2>3, <3>1, RequestCovers
  <2>5. ASSUME NEW x \in Assets
        PROVE  Paid(outputs)[x] <= Provided'[x]
    <3>1. x \in Kinds /\ x # ADA /\ drawn[x] \in Nat
      BY <1>3, AssetsAssumption DEF Kinds, Amounts
    <3>2. Unfulfilled(args)[x] <= Remaining[x] + drawn[x]
      <4>1. Remaining ++ drawn \in Amounts /\ (Remaining ++ drawn)[x] = Remaining[x] + drawn[x]
        BY <1>3, <2>4, <3>1, PlusAmounts
      <4>2. ValueLe(Unfulfilled(args), Remaining ++ drawn)
        BY <2>2, <2>3
      <4> QED BY <2>4, <3>1, <4>1, <4>2, LePointwise
    <3>3. Paid(outputs)[x] <= Provided[x] + drawn[x]
      BY <2>4, <3>1, <3>2
    <3>4. Provided[x] = Worth(inputs)[x] + ask.mint[x] /\ Worth(inputs)[x] \in Nat
          /\ ask.mint[x] \in Int
      BY <1>0, <3>1, BuilderAmounts DEF Amounts, Value
    <3>5. Provided'[x] = Worth(inputs')[x] + ask.mint[x]
      <4>1. Provided'[x] = Worth(inputs')[x] + ask.mint[x]
                             + Coin(ask.withdrawn - Deposits(ask))[x]
        BY <1>1, <3>1 DEF Provided, ++, Worth, Deposits, TotalKeyDeposit,
           TotalProposalDeposit, StatedDeposits, CredentialsOf, CertsOf
      <4>2. Coin(ask.withdrawn - Deposits(ask))[x] = 0
        BY <3>1 DEF Coin, Only, Zero
      <4>3. Worth(inputs')[x] \in Nat
        BY <1>3, <3>1, <3>4
      <4> QED BY <3>4, <4>1, <4>2, <4>3
    <3>6. Worth(inputs')[x] = Worth(inputs)[x] + drawn[x]
      BY <1>3, <3>1
    <3>7. Provided'[x] = Provided[x] + drawn[x]
      BY <3>1, <3>4, <3>5, <3>6
    <3> QED BY <3>3, <3>7
  <2>6. \A x \in Assets : Paid(outputs)'[x] = Paid(outputs)[x]
    BY <1>1 DEF Paid
  <2> QED BY <2>5, <2>6 DEF Covers
<1>8. PassInv'
  BY <1>1, <1>7 DEF PassInv
<1>9. JobInv' /\ FeeInv' /\ BodyInv' /\ KeptInv'
  BY <1>0, <1>1 DEF JobInv, FeeInv, BodyInv, KeptInv, FailureKeepsOutputs, Idling
<1> QED BY <1>2, <1>5, <1>6, <1>8, <1>9 DEF BuilderInv

\* With collateral or without, the pass over the fee finds what selection left.
LEMMA SetCollateralInv == BuilderInv /\ SetCollateral => BuilderInv'
<1> SUFFICES ASSUME BuilderInv, SetCollateral PROVE BuilderInv'
  OBVIOUS
<1>0. BuilderTypeOK /\ SelectorInv /\ OfferedInv /\ FeeInv /\ PassInv /\ KeptInv
  BY DEF BuilderInv
<1>1. /\ stage = "collateral" /\ outputs = before
      /\ UNCHANGED <<vars, inputs, outputs, ask, given, fee, before>>
  BY <1>0 DEF SetCollateral, KeptInv
<1>2. SelectorInv'
  BY <1>0, <1>1, SameSelector
<1>3. \A S \in CollateralChoices : S \in SUBSET UTxOs
  <2>1. CollateralSources \subseteq UTxOs /\ collateral.inputs \in SUBSET UTxOs
    BY <1>0 DEF CollateralSources, InputSet, BuilderTypeOK, AskType
  <2> QED BY <2>1 DEF CollateralChoices
<1>4. ReturnSizes \cup {collateral.back} \subseteq Nat
  BY <1>0, BuilderAssumption DEF BuilderTypeOK
<1>5. ASSUME Continue("change"), UNCHANGED original,
             collateral' \in [inputs : SUBSET UTxOs, back : Nat]
      PROVE  BuilderInv'
  <2>1. stage' = "change" /\ UNCHANGED <<args, rescued>>
    BY <1>5 DEF Continue
  <2>2. BuilderTypeOK'
    <3>1. stage' \in Stages
      BY <2>1 DEF Stages
    <3> QED BY <1>0, <1>1, <1>5, <2>1, <3>1 DEF BuilderTypeOK
  <2>3. Provided' = Provided /\ InputSet(inputs)' = InputSet(inputs)
    BY <1>1, SameProvided
  <2>4. OfferedInv'
    BY <1>0, <1>1, <2>3 DEF OfferedInv
  <2>5. PassInv'
    BY <1>0, <1>1, <2>1, <2>3 DEF PassInv, Covers, Paid
  <2>6. JobInv' /\ FeeInv' /\ BodyInv' /\ KeptInv'
    BY <1>0, <1>1, <2>1 DEF JobInv, FeeInv, BodyInv, KeptInv, FailureKeepsOutputs, Idling
  <2> QED BY <1>2, <2>2, <2>4, <2>5, <2>6 DEF BuilderInv
<1>6. ASSUME End("collateral"), collateral' \in [inputs : SUBSET UTxOs, back : Nat]
      PROVE  BuilderInv'
  <2>1. FailureKeepsOutputs'
    BY <1>1 DEF FailureKeepsOutputs
  <2> QED BY <1>1, <1>2, <1>6, <2>1, SameTypes, EndInv
<1>7. CASE Referenced = 0 \/ args.change = NoAddress
  <2>1. Continue("change") /\ UNCHANGED <<original, collateral>>
    BY <1>7 DEF SetCollateral
  <2> QED BY <1>0, <1>5, <2>1 DEF BuilderTypeOK
<1>8. CASE ~(Referenced = 0 \/ args.change = NoAddress)
  <2>1. PICK S \in CollateralChoices :
          \/ /\ Continue("change") /\ UNCHANGED original
             /\ \E n \in ReturnSizes \cup {collateral.back} :
                  collateral' = [inputs |-> S, back |-> n]
          \/ /\ End("collateral")
             /\ collateral' = [collateral EXCEPT !.inputs = S]
    BY <1>8 DEF SetCollateral
  <2>2. S \in SUBSET UTxOs
    BY <1>3, <2>1
  <2>3. CASE /\ Continue("change") /\ UNCHANGED original
             /\ \E n \in ReturnSizes \cup {collateral.back} :
                  collateral' = [inputs |-> S, back |-> n]
    BY <1>4, <1>5, <2>2, <2>3
  <2>4. CASE /\ End("collateral")
             /\ collateral' = [collateral EXCEPT !.inputs = S]
    <3>1. collateral' \in [inputs : SUBSET UTxOs, back : Nat]
      BY <1>0, <2>2, <2>4 DEF BuilderTypeOK
    <3> QED BY <1>6, <2>4, <3>1
  <2> QED BY <2>1, <2>3, <2>4
<1> QED BY <1>7, <1>8

-----------------------------------------------------------------------------
(* The two passes over the change and the fee *)

\* The outputs with the change of a pass are outputs.
LEMMA WithChangeType ==
  ASSUME BuilderTypeOK, NEW outs \in Seq(OutputType), NEW f \in Nat, ~Uncovered(outs, f)
  PROVE  WithChange(outs, f) \in Seq(OutputType)
<1>1. LeftOver(outs, f) \in Amounts
  BY LeftOverAmounts
<1> QED BY <1>1, ChangePaid DEF WithChange

\* A list of outputs is no larger than itself.
LEMMA SameOutputs ==
  ASSUME NEW outs \in Seq(OutputType)
  PROVE  /\ Len(outs) \in Nat /\ Len(outs) <= Len(outs)
         /\ \A i \in 1..Len(outs) : \A k \in Kinds : outs[i].amount[k] <= outs[i].amount[k]
<1>1. \A i \in 1..Len(outs) : outs[i] \in OutputType
  OBVIOUS
<1>2. Len(outs) \in Nat
  BY LenProperties
<1> QED BY <1>1, <1>2 DEF OutputType, Amounts

LEMMA FirstPassInv == BuilderInv /\ FirstPass => BuilderInv'
<1> SUFFICES ASSUME BuilderInv, FirstPass PROVE BuilderInv'
  OBVIOUS
<1> DEFINE e == EstimatedFee
<1>0. /\ BuilderTypeOK /\ SelectorInv /\ OfferedInv /\ FeeInv /\ PassInv
      /\ outputs \in Seq(OutputType) /\ fee \in Nat /\ (fee = 0 \/ fee >= WideFee)
      /\ collateral \in [inputs : SUBSET UTxOs, back : Nat]
  BY SameTypes DEF BuilderInv
<1>1. /\ stage = "change" /\ args.change # NoAddress /\ outputs = before
      /\ UNCHANGED <<vars, inputs, ask, given, before, collateral>>
  BY DEF FirstPass, BuilderInv, KeptInv
<1>2. SelectorInv'
  BY <1>0, <1>1, SameSelector
<1>3. e \in Nat /\ e >= WideFee
  BY <1>0, EstimateAmounts
<1> HIDE DEF e
<1>4. CASE TooLarge
  <2>1. End("too_large") /\ UNCHANGED <<outputs, fee>>
    BY <1>4 DEF FirstPass
  <2>2. FailureKeepsOutputs'
    BY <1>1, <2>1 DEF FailureKeepsOutputs
  <2> QED BY <1>0, <1>1, <1>2, <2>1, <2>2, EndInv
<1>5. CASE ~TooLarge /\ (Uncovered(outputs, e) \/ ChangeTooSmall(outputs, e))
  <2>1. fee' = e /\ outputs' = outputs /\ \E reason : End(reason)
    BY <1>5 DEF FirstPass, CalcChange, e
  <2>2. PICK reason : End(reason)
    BY <2>1
  <2>3. FailureKeepsOutputs'
    BY <1>1, <2>1 DEF FailureKeepsOutputs
  <2> QED BY <1>0, <1>1, <1>2, <1>3, <2>1, <2>2, <2>3, EndInv
<1>6. CASE ~TooLarge /\ ~Uncovered(outputs, e) /\ ~ChangeTooSmall(outputs, e)
  <2>1. /\ fee' = e /\ stage' = "fee" /\ original' = outputs
        /\ outputs' = WithChange(outputs, e)
        /\ UNCHANGED <<args, rescued>>
    BY <1>6 DEF FirstPass, CalcChange, Continue, e
  <2>2. outputs' \in Seq(OutputType)
    BY <1>0, <1>3, <1>6, <2>1, WithChangeType
  <2>3. BuilderTypeOK'
    <3>1. stage' \in Stages
      BY <2>1 DEF Stages
    <3> QED BY <1>0, <1>1, <1>3, <2>1, <2>2, <3>1 DEF BuilderTypeOK
  <2>4. OfferedInv'
    <3>1. InputSet(inputs)' = InputSet(inputs)
      BY <1>1 DEF InputSet
    <3> QED BY <1>0, <1>1, <2>1, <3>1 DEF OfferedInv
  <2>5. JobInv' /\ FeeInv' /\ BodyInv' /\ KeptInv'
    BY <1>1, <1>3, <2>1 DEF JobInv, FeeInv, BodyInv, KeptInv, FailureKeepsOutputs, Idling
  <2>6. Provided' = Provided /\ InputSet(inputs)' = InputSet(inputs)
    BY <1>1, SameProvided
  <2>7. Covers(original)' = Covers(outputs)
    BY <2>1, <2>6 DEF Covers, Paid
  <2>8. Uncovered(original, fee)' = Uncovered(outputs, e)
    BY <2>1, <2>6 DEF Uncovered, Paid
  <2>9. WithChange(original, fee)' = WithChange(outputs, e)
    BY <2>1, <2>6 DEF WithChange, LeftOver, MergeChanges, MergeIndex, MergeTargets, Paid
  <2>10. CostOf(original, fee)' = CostOf(outputs, e)
    BY <1>1, <2>1, <2>6 DEF CostOf, SizeOf, MinFee, TxSize, TxBody, Referenced
  <2>11. e <= CostOf(outputs, e)
    <3>1. e = CostOf(outputs, fee)
      BY DEF e, EstimatedFee, CostOf
    <3>2. CostOf(outputs, fee) <= CostOf(outputs, e)
      BY <1>0, <1>3, SameOutputs, SizeGrows
    <3> QED BY <3>1, <3>2
  <2>12. PassInv'
    BY <1>0, <1>1, <1>6, <2>1, <2>7, <2>8, <2>9, <2>10, <2>11 DEF PassInv
  <2> QED BY <1>2, <2>3, <2>4, <2>5, <2>12 DEF BuilderInv
<1> QED BY <1>4, <1>5, <1>6

\* The assets of a change without its coin are those of the change.
LEMMA MinimumMeasured ==
  ASSUME NEW c \in Amounts,
         c[ADA] >= MinLovelace(IF AssetsOf(c) = {} THEN c ELSE WithCoin(c, 0))
  PROVE  c[ADA] >= MinLovelace(c)
<1>1. CASE AssetsOf(c) = {}
  BY <1>1
<1>2. CASE AssetsOf(c) # {}
  <2> DEFINE w == WithCoin(c, 0)
             n == MinPerAsset * Cardinality(AssetsOf(c))
  <2>0. c \in Value /\ c[ADA] \in Nat
    BY DEF Amounts, Value, Kinds
  <2>1. AssetsOf(w) = AssetsOf(c) /\ w[ADA] = 0
    BY AssetsAssumption DEF WithCoin, AssetsOf, Amounts, Kinds
  <2>2. Cardinality(AssetsOf(c)) \in Nat
    <3>1. AssetsOf(c) \in SUBSET Assets
      BY DEF AssetsOf
    <3> QED BY <3>1, AssetsAssumption, FS_Subset, FS_CardinalityType
  <2>3. n \in Nat /\ MinBase \in Nat /\ WideExtra \in Nat /\ WideCoin \in Nat
    BY <2>2, MinAssumption
  <2>4. MinLovelace(w) = MinBase + n + WideExtra
    BY <2>1 DEF MinLovelace
  <2>5. MinLovelace(c) = MinBase + n + (IF c[ADA] = 0 \/ c[ADA] >= WideCoin THEN WideExtra ELSE 0)
    BY DEF MinLovelace
  <2>6. c[ADA] >= MinLovelace(w)
    BY <1>2
  <2> HIDE DEF n, w
  <2> QED BY <2>0, <2>3, <2>4, <2>5, <2>6
<1> QED BY <1>1, <1>2

\* The change under a larger fee is smaller.
LEMMA LargerFee ==
  ASSUME BuilderTypeOK, NEW outs \in Seq(OutputType), NEW f \in Nat, NEW g \in Nat, f <= g,
         ~Uncovered(outs, f), ~Uncovered(outs, g)
  PROVE  \A k \in Kinds : LeftOver(outs, g)[k] <= LeftOver(outs, f)[k]
<1>1. /\ LeftOver(outs, f)[ADA] = Provided[ADA] - Paid(outs)[ADA] - f
      /\ \A x \in Assets : LeftOver(outs, f)[x] = IF Provided[x] > Paid(outs)[x]
                                                  THEN Provided[x] - Paid(outs)[x] ELSE 0
      /\ LeftOver(outs, f) \in Amounts
  BY LeftOverAmounts
<1>2. /\ LeftOver(outs, g)[ADA] = Provided[ADA] - Paid(outs)[ADA] - g
      /\ \A x \in Assets : LeftOver(outs, g)[x] = IF Provided[x] > Paid(outs)[x]
                                                  THEN Provided[x] - Paid(outs)[x] ELSE 0
      /\ LeftOver(outs, g) \in Amounts /\ Paid(outs) \in Amounts
  BY LeftOverAmounts
<1>3. Provided \in Value
  BY BuilderAmounts
<1>4. Provided[ADA] \in Int /\ Paid(outs)[ADA] \in Int
  BY <1>2, <1>3 DEF Amounts, Value, Kinds
<1>5. LeftOver(outs, g)[ADA] <= LeftOver(outs, f)[ADA]
  BY <1>1, <1>2, <1>4
<1>6. \A k \in Kinds : LeftOver(outs, g)[k] \in Nat
  BY <1>2 DEF Amounts
<1>7. \A x \in Assets : LeftOver(outs, g)[x] = LeftOver(outs, f)[x] /\ x \in Kinds
  BY <1>1, <1>2 DEF Kinds
<1>8. \A x \in Assets : LeftOver(outs, g)[x] <= LeftOver(outs, f)[x]
  BY <1>6, <1>7
<1> QED BY <1>5, <1>8 DEF Kinds

\* The second pass settles: with the smaller change of the larger fee the body
\* costs no more than that fee, which was estimated on the larger change.
LEMMA SecondPassInv == BuilderInv /\ SecondPass => BuilderInv'
<1> SUFFICES ASSUME BuilderInv, SecondPass PROVE BuilderInv'
  OBVIOUS
<1> DEFINE e == EstimatedFee
<1>0. /\ BuilderTypeOK /\ SelectorInv /\ OfferedInv /\ FeeInv /\ PassInv
      /\ outputs \in Seq(OutputType) /\ original \in Seq(OutputType)
      /\ fee \in Nat /\ (fee = 0 \/ fee >= WideFee)
      /\ collateral \in [inputs : SUBSET UTxOs, back : Nat]
  BY SameTypes DEF BuilderInv
<1>1. /\ stage = "fee" /\ original = before
      /\ UNCHANGED <<vars, inputs, ask, given, before, collateral>>
  BY DEF SecondPass, BuilderInv, KeptInv
<1>2. SelectorInv'
  BY <1>0, <1>1, SameSelector
<1>3. e \in Nat /\ e >= WideFee
  BY <1>0, EstimateAmounts
<1>4. e = CostOf(outputs, fee)
  BY DEF e, EstimatedFee, CostOf
<1>5. TooLarge <=> SizeOf(outputs, fee) > MaxTxSize
  BY DEF TooLarge, SizeOf
<1> HIDE DEF e
<1>6. CASE TooLarge
  <2> DEFINE d == LeftOver(original, fee)
  <2>1. End("too_large") /\ UNCHANGED <<outputs, fee>>
    BY <1>6 DEF SecondPass
  <2>2. outputs = MergeChanges(original, d) /\ ~Uncovered(original, fee)
    BY <1>0, <1>1 DEF PassInv, WithChange
  <2>3. d \in Amounts
    BY <1>0, <2>2, LeftOverAmounts
  <2> HIDE DEF d
  <2>4. /\ Len(original) <= Len(outputs)
        /\ \A i \in 1..Len(original) : \A k \in Kinds :
             original[i].amount[k] <= outputs[i].amount[k]
    BY <1>0, <2>2, <2>3, ChangePaid
  <2>5. TooLarge'
    BY <1>1, <1>6, <2>1 DEF TooLarge, TxBody, TxSize, InputSet
  <2>6. outcome' = "too_large" /\ DOMAIN original = 1..Len(original)
    BY <1>0, <2>1 DEF End
  <2>7. FailureKeepsOutputs'
    BY <1>1, <2>1, <2>4, <2>5, <2>6 DEF FailureKeepsOutputs
  <2> QED BY <1>0, <1>1, <1>2, <2>1, <2>7, EndInv
<1>7. CASE ~TooLarge /\ (Uncovered(original, e) \/ ChangeTooSmall(original, e))
  <2>1. fee' = e /\ outputs' = original /\ \E reason : End(reason)
    BY <1>7 DEF SecondPass, CalcChange, e
  <2>2. PICK reason : End(reason)
    BY <2>1
  <2>3. FailureKeepsOutputs'
    BY <1>1, <2>1 DEF FailureKeepsOutputs
  <2> QED BY <1>0, <1>1, <1>2, <1>3, <2>1, <2>2, <2>3, EndInv
<1>8. CASE ~TooLarge /\ ~Uncovered(original, e) /\ ~ChangeTooSmall(original, e)
  <2> DEFINE c == LeftOver(original, e)
             d == LeftOver(original, fee)
             outs == MergeChanges(original, c)
  <2>1. /\ fee' = e /\ stage' = "body" /\ original' = original
        /\ outputs' = outs
        /\ UNCHANGED <<args, rescued>>
    BY <1>8 DEF SecondPass, CalcChange, Continue, WithChange, e
  <2>2. /\ outputs = MergeChanges(original, d) /\ ~Uncovered(original, fee)
        /\ args.change # NoAddress
        /\ ~rescued => Covers(original)
        /\ fee <= CostOf(original, fee)
        /\ fee >= WideFee
    BY <1>0, <1>1 DEF PassInv, FeeInv, WithChange
  <2>3. /\ c \in Amounts /\ Paid(original) \in Amounts
        /\ c[ADA] = Provided[ADA] - Paid(original)[ADA] - e
        /\ \A x \in Assets : c[x] = IF Provided[x] > Paid(original)[x]
                                    THEN Provided[x] - Paid(original)[x] ELSE 0
    BY <1>0, <1>3, <1>8, LeftOverAmounts
  <2>4. d \in Amounts
    BY <1>0, <2>2, LeftOverAmounts
  <2>5. fee <= e
    <3>1. /\ Len(original) <= Len(outputs)
          /\ \A i \in 1..Len(original) : \A k \in Kinds :
               original[i].amount[k] <= outputs[i].amount[k]
      BY <1>0, <2>2, <2>4, ChangePaid
    <3>2. /\ CostOf(original, fee) <= CostOf(outputs, fee)
          /\ CostOf(original, fee) \in Nat
      BY <1>0, <3>1, SizeGrows
    <3> QED BY <1>0, <1>3, <1>4, <2>2, <3>2
  <2>6. \A k \in Kinds : c[k] <= d[k]
    BY <1>0, <1>3, <1>8, <2>2, <2>5, LargerFee
  <2> HIDE DEF c, d, outs
  <2>7. outs \in Seq(OutputType) /\ \A k \in Kinds : Paid(outs)[k] = Paid(original)[k] + c[k]
    BY <1>0, <2>3, ChangePaid DEF outs
  <2>8. /\ Len(outs) <= Len(outputs)
        /\ \A i \in 1..Len(outs) : \A k \in Kinds : outs[i].amount[k] <= outputs[i].amount[k]
    <3>1. /\ Len(MergeChanges(original, c)) = Len(MergeChanges(original, d))
          /\ \A i \in 1..Len(MergeChanges(original, c)) : \A k \in Kinds :
               MergeChanges(original, c)[i].amount[k] <= MergeChanges(original, d)[i].amount[k]
      BY <1>0, <2>3, <2>4, <2>6, SmallerChange
    <3>2. Len(outputs) \in Nat
      BY <1>0, LenProperties
    <3> QED BY <2>2, <3>1, <3>2 DEF outs
  <2>9. /\ SizeOf(outs, e) <= SizeOf(outputs, fee)
        /\ SizeOf(outs, e) \in Nat /\ SizeOf(outputs, fee) \in Nat
        /\ CostOf(outs, e) <= CostOf(outputs, fee)
    BY <1>0, <1>3, <2>7, <2>8, SizeGrows
  <2>10. SizeOf(outs, e) <= MaxTxSize
    <3>1. MaxTxSize \in Nat
      BY BuilderAssumption
    <3> QED BY <1>5, <1>8, <2>9, <3>1
  <2>11. e >= CostOf(outs, e)
    BY <1>4, <2>9, EstimateAmounts, <1>0, <1>3, <2>7
  <2>12. ASSUME ~args.merge
         PROVE  LET last == outs[Len(outs)]
                IN  last.address = args.change /\ last.amount[ADA] >= MinLovelace(last.amount)
    <3> DEFINE o == [address |-> args.change, amount |-> c]
    <3>1. outs = Append(original, o)
      BY <2>12 DEF outs, MergeChanges
    <3>2. outs[Len(outs)] = o
      BY <1>0, <3>1, AppendProperties, LenProperties
    <3>3. c[ADA] >= MinLovelace(IF AssetsOf(c) = {} THEN c ELSE WithCoin(c, 0))
      <4>1. ~(c[ADA] < MinLovelace(IF AssetsOf(c) = {} THEN c ELSE WithCoin(c, 0)))
        BY <1>8, <2>12 DEF ChangeTooSmall, c
      <4>2. c[ADA] \in Nat /\ c \in Value /\ WithCoin(c, 0) \in Value
        BY <2>3 DEF Amounts, Value, Kinds, WithCoin
      <4>3. /\ MinLovelace(c) \in Nat
            /\ MinLovelace(WithCoin(c, 0)) \in Nat
        BY <4>2, MinLovelaceType
      <4> QED BY <4>1, <4>2, <4>3
    <3>4. c[ADA] >= MinLovelace(c)
      BY <2>3, <3>3, MinimumMeasured
    <3> QED BY <3>2, <3>4
  <2>13. ASSUME ~rescued, NEW k \in Kinds
         PROVE  Paid(outs)[k] + Coin(e)[k] = Provided[k]
    <3>1. Paid(outs)[k] = Paid(original)[k] + c[k]
      BY <2>7
    <3>2. Coin(e)[k] = IF k = ADA THEN e ELSE 0
      BY DEF Coin, Only, Zero
    <3>3. Paid(original)[k] \in Nat /\ Provided[k] \in Int
      BY <1>0, <2>3, BuilderAmounts DEF Amounts, Value
    <3>4. CASE k = ADA
      BY <1>3, <2>3, <3>1, <3>2, <3>3, <3>4
    <3>5. CASE k # ADA
      <4>1. k \in Assets
        BY <3>5 DEF Kinds
      <4>2. Paid(original)[k] <= Provided[k]
        BY <2>2, <2>13, <4>1 DEF Covers
      <4>3. c[k] = IF Provided[k] > Paid(original)[k] THEN Provided[k] - Paid(original)[k] ELSE 0
        BY <2>3, <4>1
      <4>4. Paid(outs)[k] = Provided[k]
        BY <3>1, <3>3, <4>2, <4>3
      <4> QED BY <3>2, <3>3, <3>5, <4>4
    <3> QED BY <3>4, <3>5
  <2>14. BuilderTypeOK'
    <3>1. stage' \in Stages
      BY <2>1 DEF Stages
    <3> QED BY <1>0, <1>1, <1>3, <2>1, <2>7, <3>1 DEF BuilderTypeOK
  <2>15. Provided' = Provided /\ InputSet(inputs)' = InputSet(inputs)
    BY <1>1, SameProvided
  <2>16. OfferedInv'
    BY <1>0, <1>1, <2>1, <2>15 DEF OfferedInv
  <2>17. JobInv' /\ FeeInv' /\ PassInv'
    BY <1>3, <2>1 DEF JobInv, FeeInv, PassInv
  <2>20. KeptInv'
    BY <2>1 DEF KeptInv, FailureKeepsOutputs, Idling
  <2>18. BodyInv'
    <3>1. CostOf(outputs, fee)' = CostOf(outs, e)
      BY <1>1, <2>1, <2>15 DEF CostOf, SizeOf, MinFee, TxSize, TxBody, Referenced
    <3>2. SizeOf(outputs, fee)' = SizeOf(outs, e)
      BY <1>1, <2>1, <2>15 DEF SizeOf, TxSize, TxBody
    <3>3. Paid(outputs)' = Paid(outs) /\ Coin(fee)' = Coin(e)
      BY <2>1 DEF Paid, Coin
    <3> QED BY <2>1, <2>10, <2>11, <2>12, <2>13, <2>15, <3>1, <3>2, <3>3 DEF BodyInv
  <2> QED BY <1>2, <2>14, <2>16, <2>17, <2>18, <2>20 DEF BuilderInv
<1> QED BY <1>6, <1>7, <1>8

\* Without a change address the fee of the first estimate is the fee.
LEMMA FeeOnlyInv == BuilderInv /\ FeeOnly => BuilderInv'
<1> SUFFICES ASSUME BuilderInv, FeeOnly PROVE BuilderInv'
  OBVIOUS
<1> DEFINE e == EstimatedFee
<1>0. /\ BuilderTypeOK /\ SelectorInv /\ OfferedInv /\ FeeInv
      /\ outputs \in Seq(OutputType) /\ fee \in Nat /\ (fee = 0 \/ fee >= WideFee)
      /\ collateral \in [inputs : SUBSET UTxOs, back : Nat]
  BY SameTypes DEF BuilderInv
<1>1. /\ stage = "change" /\ args.change = NoAddress /\ outputs = before
      /\ UNCHANGED <<vars, inputs, outputs, ask, given, before, collateral>>
  BY DEF FeeOnly, BuilderInv, KeptInv
<1>2. SelectorInv'
  BY <1>0, <1>1, SameSelector
<1>3. e \in Nat /\ e >= WideFee
  BY <1>0, EstimateAmounts
<1>4. e = CostOf(outputs, fee)
      /\ (TooLarge <=> SizeOf(outputs, fee) > MaxTxSize)
  BY DEF e, EstimatedFee, TooLarge, CostOf, SizeOf
<1> HIDE DEF e
<1>5. CASE TooLarge
  <2>1. End("too_large") /\ UNCHANGED <<outputs, fee>>
    BY <1>1, <1>5 DEF FeeOnly
  <2>2. FailureKeepsOutputs'
    BY <1>1 DEF FailureKeepsOutputs
  <2> QED BY <1>0, <1>1, <1>2, <2>1, <2>2, EndInv
<1>6. CASE ~TooLarge
  <2>1. fee' = e /\ stage' = "body" /\ original' = outputs /\ UNCHANGED <<args, rescued>>
    BY <1>6 DEF FeeOnly, Continue, e
  <2>2. /\ SizeOf(outputs, e) <= SizeOf(outputs, fee)
        /\ SizeOf(outputs, e) \in Nat /\ SizeOf(outputs, fee) \in Nat
        /\ CostOf(outputs, e) <= CostOf(outputs, fee)
        /\ CostOf(outputs, e) \in Nat
    BY <1>0, <1>3, SameOutputs, SizeGrows
  <2>3. SizeOf(outputs, e) <= MaxTxSize /\ e >= CostOf(outputs, e)
    <3>1. MaxTxSize \in Nat
      BY BuilderAssumption
    <3> QED BY <1>3, <1>4, <1>6, <2>2, <3>1
  <2>4. BuilderTypeOK'
    <3>1. stage' \in Stages
      BY <2>1 DEF Stages
    <3> QED BY <1>0, <1>1, <1>3, <2>1, <3>1 DEF BuilderTypeOK
  <2>5. Provided' = Provided /\ InputSet(inputs)' = InputSet(inputs)
    BY <1>1, SameProvided
  <2>6. OfferedInv'
    BY <1>0, <1>1, <2>1, <2>5 DEF OfferedInv
  <2>7. JobInv' /\ FeeInv' /\ PassInv'
    BY <1>3, <2>1 DEF JobInv, FeeInv, PassInv
  <2>20. KeptInv'
    BY <2>1 DEF KeptInv, FailureKeepsOutputs, Idling
  <2>8. BodyInv'
    <3>1. CostOf(outputs, fee)' = CostOf(outputs, e)
      BY <1>1, <2>1, <2>5 DEF CostOf, SizeOf, MinFee, TxSize, TxBody, Referenced
    <3>2. SizeOf(outputs, fee)' = SizeOf(outputs, e)
      BY <1>1, <2>1, <2>5 DEF SizeOf, TxSize, TxBody
    <3> QED BY <1>1, <2>1, <2>3, <3>1, <3>2 DEF BodyInv
  <2> QED BY <1>2, <2>4, <2>6, <2>7, <2>8, <2>20 DEF BuilderInv
<1> QED BY <1>5, <1>6

LEMMA BuildBodyInv == BuilderInv /\ BuildBody => BuilderInv'
<1> SUFFICES ASSUME BuilderInv, BuildBody PROVE BuilderInv'
  OBVIOUS
<1>1. End("built") /\ UNCHANGED <<vars, inputs, outputs, ask, given, fee, before, collateral>>
  BY DEF BuildBody
<1>2. SelectorInv'
  BY <1>1, SameSelector DEF BuilderInv
<1>3. FailureKeepsOutputs'
  BY <1>1 DEF End, FailureKeepsOutputs
<1> QED BY <1>1, <1>2, <1>3, SameTypes, EndInv

LEMMA BuilderNextInv == BuilderInv /\ [BuilderNext]_allVars => BuilderInv'
<1> SUFFICES ASSUME BuilderInv, [BuilderNext]_allVars PROVE BuilderInv'
  OBVIOUS
<1>1. CASE UNCHANGED allVars
  <2>1. UNCHANGED builderVars /\ UNCHANGED vars
    BY <1>1 DEF allVars
  <2>2. SelectorInv' /\ job' = job
    BY <2>1, SameSelector DEF BuilderInv, vars
  <2> QED BY <2>1, <2>2, RestInv
<1>2. CASE BuildStep
  BY <1>2, SelectorStepInv, SelectionDoneInv, SelectionFailedInv, SetCollateralInv, FirstPassInv,
     SecondPassInv, FeeOnlyInv, BuildBodyInv DEF BuildStep
<1> QED BY <1>1, <1>2, UserEditInv, BuildStartInv DEF BuilderNext, Finished

LEMMA BuilderInitInv == BuilderInit => BuilderInv
<1> SUFFICES ASSUME BuilderInit PROVE BuilderInv
  OBVIOUS
<1>1. SelectorInv
  BY InitSelector DEF BuilderInit, Init
<1>2. BuilderTypeOK
  <2>1. IsFiniteSet(ask.certs) /\ IsFiniteSet(ask.proposals)
    BY FS_EmptySet DEF BuilderInit, NoAsk
  <2>2. ask \in AskType
    BY DEF BuilderInit, NoAsk, AskType
  <2>3. args \in [change : ChangeAddresses \cup {NoAddress}, merge : BOOLEAN]
    BY DEF BuilderInit, NoArgs
  <2>4. outputs \in Seq(OutputType) /\ original \in Seq(OutputType) /\ before \in Seq(OutputType)
    BY EmptySeq DEF BuilderInit
  <2>5. stage \in Stages /\ collateral \in [inputs : SUBSET UTxOs, back : Nat]
    BY DEF BuilderInit, Stages, NoCollateral
  <2> QED BY <2>1, <2>2, <2>3, <2>4, <2>5 DEF BuilderInit, BuilderTypeOK
<1>3. InputSet(inputs) = {} /\ \A u \in UTxOs : inputs[u] = given[u]
  BY DEF BuilderInit, InputSet
<1>4. OfferedInv
  BY <1>3 DEF OfferedInv
<1>5. JobInv /\ FeeInv /\ PassInv /\ BodyInv /\ KeptInv
  BY DEF BuilderInit, JobInv, FeeInv, PassInv, BodyInv, KeptInv, FailureKeepsOutputs
<1> QED BY <1>1, <1>2, <1>4, <1>5 DEF BuilderInv

\* In every state of a builder, through any edits and builds: what it has, what
\* the running build asked for, and what the passes over the fee have settled.
THEOREM BuilderInvariant == BuilderSpec => []BuilderInv
BY BuilderInitInv, BuilderNextInv, PTL DEF BuilderSpec

-----------------------------------------------------------------------------
(* What build returns *)

LEMMA ReturnIsBody == [BuilderNext]_allVars /\ Returns => BuildBody
<1> SUFFICES ASSUME [BuilderNext]_allVars, Returns PROVE BuildBody
  OBVIOUS
<1>1. stage = "body" /\ stage' = "idle"
  BY DEF Returns
<1>2. ~UNCHANGED allVars
  BY <1>1 DEF allVars, builderVars, buildVars
<1>3. ~UserEdit
  BY <1>1 DEF UserEdit, AddInput, AddOutput, Edit, Idling, Ask, ExcludeInput, AddPotentialInput,
     AddInputAddress, SetMint, SetWithdrawals, AddCertificate, AddProposal, AddTreasuryDonation
<1>4. \A a \in Args : ~BuildStart(a)
  BY <1>1 DEF BuildStart, Idling
<1>5. BuildStep => BuildBody
  BY <1>1 DEF BuildStep, SelectorStep, SelectionDone, SelectionFailed, SetCollateral,
     Continue, End, FirstPass, SecondPass, FeeOnly
<1> QED BY <1>2, <1>3, <1>4, <1>5 DEF BuilderNext, Finished

\* The body that is returned is that of the last estimate.
LEMMA ReturnedBody ==
  ASSUME BuilderInv, [BuilderNext]_allVars, Returns
  PROVE  /\ stage = "body" /\ tx' = TxBody(outputs, fee)
         /\ tx'.inputs = InputSet(inputs) /\ tx'.outputs = outputs
         /\ UNCHANGED <<inputs, given, ask>>
BY ReturnIsBody DEF BuildBody, TxBody

\* The fee of the body that build returns pays for it and for the scripts on the
\* inputs that the user added, although it was estimated on a body with another
\* change and another fee (txbuilder.py:735-773, 1237-1252).
THEOREM FeesSuffice == BuilderSpec => FeeSufficient
<1>1. BuilderInv /\ [BuilderNext]_allVars
        => (Returns => tx'.fee >= MinFee(tx', Carried({u \in tx'.inputs : given[u] > 0})))
  <2> SUFFICES ASSUME BuilderInv, [BuilderNext]_allVars, Returns
               PROVE  tx'.fee >= MinFee(tx', Carried({u \in tx'.inputs : given[u] > 0}))
    OBVIOUS
  <2> DEFINE S == {u \in tx'.inputs : given[u] > 0}
             t == TxBody(outputs, fee)
             base == FeeConstant + FeePerByte * TxSize(t)
             m == Carried(S)
             n == Referenced
  <2>1. stage = "body" /\ tx' = t /\ tx'.inputs = InputSet(inputs) /\ t.fee = fee
    BY ReturnedBody DEF TxBody
  <2>2. BuilderTypeOK /\ fee \in Nat /\ SizeOf(outputs, fee) \in Nat
    <3>1. BuilderTypeOK /\ outputs \in Seq(OutputType) /\ fee \in Nat /\ (fee = 0 \/ fee >= WideFee)
      BY SameTypes
    <3> QED BY <3>1, SameOutputs, SizeGrows
  <2>3. fee >= MinFee(t, n)
    BY <2>1 DEF BuilderInv, BodyInv, CostOf
  <2>4. S \in SUBSET UTxOs /\ \A u \in S : given[u] > 0
    BY <2>1 DEF InputSet
  <2> HIDE DEF S, t
  <2>5. n \in Nat /\ m \in Nat /\ m <= n
    BY <2>2, <2>4, ReferencedAmounts
  <2> HIDE DEF m, n
  <2>6. ScriptFee(m) \in Nat /\ ScriptFee(n) \in Nat /\ ScriptFee(m) <= ScriptFee(n)
    BY <2>5, ScriptFeeGrows
  <2>7. base \in Nat
    <3>1. TxSize(t) \in Nat /\ FeeConstant \in Nat /\ FeePerByte \in Nat
      BY <2>2, BuilderAssumption DEF SizeOf, t
    <3> QED BY <3>1
  <2>8. MinFee(t, n) = base + ScriptFee(n) /\ MinFee(t, m) = base + ScriptFee(m)
    BY DEF MinFee
  <2> HIDE DEF base
  <2>9. fee >= MinFee(t, m)
    BY <2>2, <2>3, <2>6, <2>7, <2>8
  <2> QED BY <2>1, <2>9 DEF m, S
<1> QED BY <1>1, BuilderInvariant, PTL DEF BuilderSpec, FeeSufficient

\* That body is within max_tx_size, although only the bodies of the estimates were
\* tested (txbuilder.py:1140-1155).
THEOREM SizesAreLimited == BuilderSpec => WithinSizeLimit
<1>1. BuilderInv /\ [BuilderNext]_allVars => (Returns => TxSize(tx') <= MaxTxSize)
  BY ReturnedBody DEF BuilderInv, BodyInv, SizeOf
<1> QED BY <1>1, BuilderInvariant, PTL DEF BuilderSpec, WithinSizeLimit

\* A change of its own is the last output and holds its minimum ADA
\* (txbuilder.py:660-705).
THEOREM ChangeIsAnOutput == BuilderSpec => ChangeHoldsMinimum
<1>1. BuilderInv /\ [BuilderNext]_allVars
        => (Returns /\ args.change # NoAddress /\ ~args.merge =>
              LET last == tx'.outputs[Len(tx'.outputs)]
              IN  last.address = args.change /\ last.amount[ADA] >= MinLovelace(last.amount))
  <2> SUFFICES ASSUME BuilderInv, [BuilderNext]_allVars, Returns, args.change # NoAddress,
                      ~args.merge
               PROVE  LET last == tx'.outputs[Len(tx'.outputs)]
                      IN  last.address = args.change /\ last.amount[ADA] >= MinLovelace(last.amount)
    OBVIOUS
  <2>1. tx'.outputs = outputs /\ stage = "body"
    BY ReturnedBody
  <2> QED BY <2>1 DEF BuilderInv, BodyInv
<1> QED BY <1>1, BuilderInvariant, PTL DEF BuilderSpec, ChangeHoldsMinimum

\* Nothing is spent that was not offered, nor an input counted more often than it
\* was added or found, whatever the user adds and excludes between builds
\* (txbuilder.py:1220-1226, 1390-1415).
THEOREM OnlyTheOfferedIsSpent == BuilderSpec => OnlyOfferedSpent
<1> DEFINE Origin(u) ==
             \/ u \in ask.potential
             \/ inputs'[u] = given[u]
             \/ /\ inputs'[u] = given[u] + 1
                /\ ask.wallet /\ Owner[u] = Wallet /\ u \notin WithScript \cup ask.excluded
<1>1. BuilderInv /\ [BuilderNext]_allVars => (Returns => \A u \in tx'.inputs : Origin(u))
  <2> SUFFICES ASSUME BuilderInv, [BuilderNext]_allVars, Returns, NEW u \in tx'.inputs
               PROVE  Origin(u)
    OBVIOUS
  <2>1. tx'.inputs = InputSet(inputs) /\ inputs' = inputs /\ stage = "body"
    BY ReturnedBody
  <2>2. u \in UTxOs /\ u \in InputSet(inputs)
    BY <2>1 DEF InputSet
  <2> QED BY <2>1, <2>2 DEF BuilderInv, OfferedInv
<1> QED BY <1>1, BuilderInvariant, PTL DEF BuilderSpec, OnlyOfferedSpent

\* In every state between two builds, after any failure and any edits before it: the
\* outputs are those the failed build was called with, or it was the second pass that
\* found the transaction too large (txbuilder.py:721-771, 1149-1155).
THEOREM FailuresKeepOutputs == BuilderSpec => []FailureKeepsOutputs
<1>1. BuilderInv => FailureKeepsOutputs
  BY DEF BuilderInv, KeptInv
<1> QED BY <1>1, BuilderInvariant, PTL

\* The ledger's equation for the body of a builder, kind by kind.
LEMMA BodyBalance ==
  ASSUME BuilderTypeOK, NEW k \in Kinds, NEW t,
         t = TxBody(outputs, fee),
         Paid(outputs)[k] + Coin(fee)[k] = Provided[k]
  PROVE  Produced(t)[k] = (Consumed(t) ++ Uncounted(t))[k]
<1> DEFINE spent == InputSet(inputs)
           w == Worth(inputs)[k]
           s == WorthOf(spent)[k]
           p == Paid(outputs)[k]
           m == ask.mint[k]
           minted == Minted(ask.mint)[k]
           burned == Burned(ask.mint)[k]
           led == LedgerDeposits(ask)
           dep == Deposits(ask)
           exp == ExplicitDeposits(ask)
           sta == StatedDeposits(ask)
           ref == Refunds(ask)
           out == ask.withdrawn
           don == ask.donation
           ada(n) == IF k = ADA THEN n ELSE 0
<1>1. \A n \in Int : Coin(n)[k] = ada(n)
  BY DEF Coin, Only, Zero
<1>2. w \in Nat /\ p \in Nat /\ m \in Int /\ (k = ADA => m = 0)
      /\ out \in Nat /\ dep \in Nat /\ Provided[k] = w + m + ada(out - dep)
  BY BuilderAmounts DEF Amounts, Value
<1>3. led \in Nat /\ sta \in Nat /\ exp \in Nat /\ led = dep + exp - sta
  BY DepositTypes
<1>4. s \in Nat
  <2>1. spent \in SUBSET UTxOs
    BY DEF InputSet
  <2>2. WorthOf(spent) \in Amounts
    BY <2>1, WorthAmounts
  <2> QED BY <2>2 DEF Amounts
<1>5. fee \in Nat /\ don \in Nat
  BY DEF BuilderTypeOK, AskType
<1>6. ref \in Nat
  <2> DEFINE S == CertsOf(ask, "deregistration")
             f == [c \in S |-> c.credential]
  <2>1. IsFiniteSet(S)
    BY FS_Subset DEF BuilderTypeOK, CertsOf
  <2>2. CredentialsOf(ask, "deregistration") = {f[c] : c \in S}
    BY DEF CredentialsOf
  <2> HIDE DEF S, f
  <2>3. Cardinality(CredentialsOf(ask, "deregistration")) \in Nat
    BY <2>1, <2>2, ImageFinite, FS_CardinalityType
  <2>4. KeyDeposit \in Nat
    BY BuilderAssumption
  <2> QED BY <2>3, <2>4 DEF Refunds
<1>7. minted \in Nat /\ burned \in Nat /\ minted - burned = m
  <2>1. Minted(ask.mint)[k] = IF k # ADA /\ m > 0 THEN m ELSE 0
    BY <1>2, AssetsAssumption DEF Minted, KeepPositive, WithCoin, Kinds
  <2>2. Burned(ask.mint)[k] = IF k # ADA /\ 0 - m > 0 THEN 0 - m ELSE 0
    BY <1>2, AssetsAssumption DEF Burned, KeepPositive, WithCoin, Kinds, Zero, --
  <2> HIDE DEF m
  <2> QED BY <1>2, <2>1, <2>2
<1>8. Produced(t)[k] = p + burned + Coin(fee + don + led)[k]
  BY DEF TxBody, Produced, ++
<1>9. Consumed(t)[k] = s + minted + Coin(out + ref)[k]
  BY DEF TxBody, Consumed, ++
<1>10. Uncounted(t)[k] = (w - s) + Coin(don + (exp - sta) - ref)[k]
  BY DEF TxBody, Uncounted, EqualDeposits, ++, --
<1>11. (Consumed(t) ++ Uncounted(t))[k] = Consumed(t)[k] + Uncounted(t)[k]
  BY DEF ++
<1>12. p + Coin(fee)[k] = Provided[k]
  OBVIOUS
<1> HIDE DEF spent, w, s, p, m, minted, burned, led, dep, exp, sta, ref, out, don
<1>13. /\ Coin(fee)[k] = ada(fee)
       /\ Coin(fee + don + led)[k] = ada(fee + don + led)
       /\ Coin(out + ref)[k] = ada(out + ref)
       /\ Coin(don + (exp - sta) - ref)[k] = ada(don + (exp - sta) - ref)
  BY <1>1, <1>2, <1>3, <1>5, <1>6
<1>14. p + ada(fee) = w + m + ada(out - dep)
  BY <1>2, <1>12, <1>13
<1>15. p + burned + ada(fee + don + led)
         = s + minted + ada(out + ref) + ((w - s) + ada(don + (exp - sta) - ref))
  BY <1>2, <1>3, <1>4, <1>5, <1>6, <1>7, <1>14
<1> QED BY <1>8, <1>9, <1>10, <1>11, <1>13, <1>15

\* The body that build returns is out of balance by what _calc_change leaves out and
\* by nothing else: selection, merging, minting, burning and the two passes over
\* the fee lose and create nothing (txbuilder.py:628-773).
THEOREM NothingElseIsUncounted == BuilderSpec => OffByUncounted
<1>1. BuilderInv /\ [BuilderNext]_allVars
        => (Returns /\ args.change # NoAddress /\ ~rescued =>
              Produced(tx') = Consumed(tx') ++ Uncounted(tx'))
  <2> SUFFICES ASSUME BuilderInv, [BuilderNext]_allVars, Returns, args.change # NoAddress, ~rescued
               PROVE  Produced(tx') = Consumed(tx') ++ Uncounted(tx')
    OBVIOUS
  <2>1. tx' = TxBody(outputs, fee) /\ stage = "body"
    BY ReturnedBody
  <2>2. BuilderTypeOK /\ \A k \in Kinds : Paid(outputs)[k] + Coin(fee)[k] = Provided[k]
    BY <2>1 DEF BuilderInv, BodyInv
  <2>3. \A k \in Kinds : Produced(tx')[k] = (Consumed(tx') ++ Uncounted(tx'))[k]
    BY <2>1, <2>2, BodyBalance
  <2>4. /\ Produced(tx') = [k \in Kinds |-> Produced(tx')[k]]
        /\ Consumed(tx') ++ Uncounted(tx')
             = [k \in Kinds |-> (Consumed(tx') ++ Uncounted(tx'))[k]]
    BY DEF Produced, ++
  <2> QED BY <2>3, <2>4
<1> QED BY <1>1, BuilderInvariant, PTL DEF BuilderSpec, OffByUncounted

=============================================================================
