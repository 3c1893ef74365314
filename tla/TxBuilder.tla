------------------------------ MODULE TxBuilder ------------------------------
(***************************************************************************)
(* TransactionBuilder of txbuilder.py for transactions that run no script: *)
(* what the user puts into the builder, and build() in the steps between   *)
(* which it can raise.  build() calls the selectors of CoinSelection,      *)
(* whose variables this module shares.  A UTxO may carry a script that     *)
(* others refer to; whoever spends it pays for the script's bytes.         *)
(*                                                                         *)
(* A builder outlives its builds: after a build, successful or not, the    *)
(* user may go on editing it and build again, from whatever the last build *)
(* left in inputs, outputs and fee.                                        *)
(***************************************************************************)
EXTENDS CoinSelection, FiniteSetsExt

CONSTANTS
  Chain,        \* utxo_selectors, in the order they are tried
  Owner,        \* Owner[u]: the address that holds u
  ScriptSize,   \* ScriptSize[u]: the bytes of the script that u carries, or 0
  Wallet,       \* the address the user gives to add_input_address
  NoAddress,    \* change_address is None
  ChangeAddresses, \* the change_address arguments to explore
  Outputs,      \* the outputs the user may add, [address, amount]
  Offered,      \* the UTxOs the user may add to potential_inputs
  Mints,        \* the mint fields the user may set
  Withdrawals,  \* the total withdrawals the user may set
  Certificates, \* the certificates the user may add, [type, credential, coin]
  Proposals,    \* the proposals the user may add, [deposit]
  Donations,    \* the treasury donations the user may add
  MaxRepeats,   \* bound: how often the user finds an input in the list and adds it
  KeyDeposit,   \* protocol_param.key_deposit
  PoolDeposit,  \* protocol_param.pool_deposit
  FeeConstant,  \* protocol_param.min_fee_constant
  FeePerByte,   \* protocol_param.min_fee_coefficient
  WideFee,      \* fees from here on take more bytes in CBOR
  MaxScriptSize, \* protocol_param.maximum_reference_scripts_size
  BytePrice,    \* BytePrice[j]: what the j-th byte of reference scripts costs
  ReturnSizes,  \* the bytes of a collateral return and its total to explore
  MaxCollateral, \* bound: how many UTxOs a build takes as collateral
  MaxTxSize,    \* protocol_param.max_tx_size
  MaxEdits,     \* bound: edits of the user
  MaxBuilds     \* bound: calls of build

ASSUME BuilderAssumption ==
  /\ Chain \in Seq(SelectorNames) \ {<<>>}
  /\ {KeyDeposit, PoolDeposit, FeeConstant, FeePerByte, WideFee, MaxTxSize} \subseteq Nat
  /\ Owner \in [UTxOs -> {Owner[u] : u \in UTxOs}]
  /\ ScriptSize \in [UTxOs -> Nat] /\ Offered \subseteq UTxOs
  /\ MaxScriptSize \in Nat /\ BytePrice \in [1..MaxScriptSize -> Nat]
  /\ ReturnSizes \subseteq Nat
  /\ Outputs \subseteq [address : {o.address : o \in Outputs}, amount : Amounts]
  /\ \A m \in Mints : m \in Value /\ m[ADA] = 0
  /\ Withdrawals \cup Donations \subseteq Nat
  /\ \A c \in Certificates : c.coin \in Nat
  /\ \A p \in Proposals : p.deposit \in Nat

\* The constant part of the fee alone takes as many bytes as any fee does
\* (155381 lovelace, where 65536 already take five).
ASSUME FeeWidthAssumption == WideFee <= FeeConstant

VARIABLES
  inputs,      \* inputs[u]: how often u is in the list _inputs
  outputs,     \* _outputs, in order
  ask,         \* the fields only the user sets, see NoAsk
  fee,         \* _fee
  stage,       \* "idle", or how far the running build has come
  outcome,     \* how the last build ended: "none", "built" or the exception
  args,        \* change_address and merge_change of the running build
  original,    \* original_outputs of _add_change_and_fee
  collateral,  \* collaterals, and the bytes of _collateral_return and _total_collateral
  tx,          \* the body the last successful build returned
  shared,      \* its list of outputs is still the builder's own
  given,       \* given[u]: how often the user added u, and the builder its script
  before,      \* history: the outputs that the last build was called with
  rescued,     \* history: a selector after the first served this build
  edits, builds \* counters of the bounds

buildVars ==
  <<fee, stage, outcome, args, original, before, collateral, tx, shared, rescued, builds>>
builderVars == <<inputs, outputs, ask, given, edits, buildVars>>
allVars == <<builderVars, vars>>

NoAsk == [potential |-> {}, excluded |-> {}, wallet |-> FALSE, mint |-> Zero,
          withdrawn |-> 0, certs |-> {}, proposals |-> {}, donation |-> 0]
NoArgs == [change |-> NoAddress, merge |-> FALSE]
NoCollateral == [inputs |-> {}, back |-> 0]
NoTx == [inputs |-> {}, outputs |-> <<>>, fee |-> 0, ask |-> NoAsk, collateral |-> NoCollateral,
         change |-> NoAddress, listed |-> [u \in UTxOs |-> 0]]

\* The UTxOs that carry a script.
WithScript == {u \in UTxOs : ScriptSize[u] > 0}

Idling == stage = "idle"

-----------------------------------------------------------------------------
(* The user edits the builder *)

Edit ==
  /\ Idling
  /\ edits < MaxEdits
  /\ edits' = edits + 1
  /\ outcome' = "none"
  /\ before' = <<>>
  /\ UNCHANGED <<vars, fee, stage, args, original, collateral, tx, shared, rescued, builds>>

\* The script of the UTxO goes to _reference_scripts, each time it is added.
AddInput(u) ==
  /\ Edit
  /\ inputs[u] <= MaxRepeats
  /\ inputs' = [inputs EXCEPT ![u] = @ + 1]
  /\ given' = [given EXCEPT ![u] = @ + 1]
  /\ UNCHANGED <<outputs, ask>>

AddOutput(o) ==
  /\ Edit
  /\ outputs' = Append(outputs, o)
  /\ UNCHANGED <<inputs, ask, given>>

\* The other edits change one field each, to new.
Ask(new) ==
  /\ Edit
  /\ ask' = new
  /\ ask' # ask
  /\ UNCHANGED <<inputs, outputs, given>>

AddPotentialInput(u) == Ask([ask EXCEPT !.potential = @ \cup {u}])
ExcludeInput(u)      == Ask([ask EXCEPT !.excluded = @ \cup {u}])
AddInputAddress      == Ask([ask EXCEPT !.wallet = TRUE])
SetMint(m)           == Ask([ask EXCEPT !.mint = m])
SetWithdrawals(n)    == Ask([ask EXCEPT !.withdrawn = n])
AddCertificate(c)    == Ask([ask EXCEPT !.certs = @ \cup {c}])
AddProposal(p)       == Ask([ask EXCEPT !.proposals = @ \cup {p}])
AddTreasuryDonation(n) == n > 0 /\ Ask([ask EXCEPT !.donation = n])

UserEdit ==
  \/ \E u \in UTxOs : AddInput(u) \/ ExcludeInput(u)
  \/ \E u \in Offered : AddPotentialInput(u)
  \/ AddInputAddress
  \/ \E o \in Outputs : AddOutput(o)
  \/ \E m \in Mints : SetMint(m)
  \/ \E n \in Withdrawals : SetWithdrawals(n)
  \/ \E c \in Certificates : AddCertificate(c)
  \/ \E p \in Proposals : AddProposal(p)
  \/ \E n \in Donations : AddTreasuryDonation(n)

-----------------------------------------------------------------------------
(* Amounts *)

\* The sum of the amounts of a list of inputs, repeated ones counted as often
\* as they are in it.
Worth(ins) == [k \in Kinds |-> Total([u \in UTxOs |-> ins[u] * Amount[u][k]], UTxOs)]
\* The sum of the outputs of a list.
Paid(outs) ==
  [k \in Kinds |-> Total([i \in DOMAIN outs |-> outs[i].amount[k]], DOMAIN outs)]

Coin(n) == Only(ADA, n)
Minted(m) == WithCoin(KeepPositive(m), 0)
Burned(m) == WithCoin(KeepPositive(Zero -- m), 0)

CertsOf(a, t) == {c \in a.certs : c.type = t}
CredentialsOf(a, t) == {c.credential : c \in CertsOf(a, t)}

\* The sum of the SET of the deposits that the Conway certificates state.
StatedDeposits(a) ==
  LET stated == {c.coin : c \in CertsOf(a, "explicit")} IN Total([n \in stated |-> n], stated)

\* Mutant: every pool costs a key deposit.
TotalDepositOfKeys(a) ==
  KeyDeposit * Cardinality(CredentialsOf(a, "registration") \cup CredentialsOf(a, "pool"))
    + StatedDeposits(a)

\* _get_total_key_deposit: one key deposit for each registered credential, one
\* pool deposit for each newly registered pool, and the stated deposits.
TotalKeyDeposit(a) ==
  KeyDeposit * Cardinality(CredentialsOf(a, "registration"))
    + PoolDeposit * Cardinality(CredentialsOf(a, "pool"))
    + StatedDeposits(a)

\* _get_total_proposal_deposit
TotalProposalDeposit(a) == Total([p \in a.proposals |-> p.deposit], a.proposals)

Deposits(a) == TotalKeyDeposit(a) + TotalProposalDeposit(a)

-----------------------------------------------------------------------------
(* The fee: linear in the size of a transaction with as many witnesses as  *)
(* its inputs have owners and a fee field that holds the fee known so far  *)

InputSet(ins) == {u \in UTxOs : ins[u] > 0}
OutputSize(o) ==
  1 + Cardinality(AssetsOf(o.amount)) + (IF o.amount[ADA] >= WideCoin THEN 1 ELSE 0)

\* _build_tx_body with outputs outs and fee f.  The inputs of the body are an
\* ordered set, so a repeated input is in it once.
TxBody(outs, f) ==
  [inputs |-> InputSet(inputs), outputs |-> outs, fee |-> f, ask |-> ask,
   collateral |-> collateral, change |-> args.change, listed |-> inputs]

\* len(tx.to_cbor()) of _build_full_fake_tx: the body, and a witness for every owner
\* of its inputs and its collateral.  While the fee is 0 the maximal fee is written
\* into the body.
TxSize(t) ==
  Cardinality(t.inputs) + Cardinality(t.collateral.inputs) + t.collateral.back
    + Cardinality({Owner[u] : u \in t.inputs \cup t.collateral.inputs})
    + Total([i \in DOMAIN t.outputs |-> OutputSize(t.outputs[i])], DOMAIN t.outputs)
    + Cardinality(AssetsOf(t.ask.mint))
    + Cardinality(t.ask.certs) + Cardinality(t.ask.proposals)
    + Cardinality({n \in {t.ask.donation, t.ask.withdrawn} : n > 0})
    + (IF t.fee = 0 \/ t.fee >= WideFee THEN 1 ELSE 0)

\* tiered_reference_script_fee: every byte at the price of the range it is in.
ScriptFee(n) == Total(BytePrice, {j \in 1..MaxScriptSize : j <= n})

\* fee() for the body t and reference scripts of n bytes.
MinFee(t, n) == FeeConstant + FeePerByte * TxSize(t) + ScriptFee(n)

\* _ref_script_size: the scripts of the inputs that the user added.
Referenced == Total([u \in UTxOs |-> given[u] * ScriptSize[u]], UTxOs)

\* _estimate_fee, and its exceptions: the transaction is too large, or the scripts
\* are.  A build adds no reference script, so only its first estimate can meet the
\* second.
EstimatedFee == MinFee(TxBody(outputs, fee), Referenced)
TooLarge == TxSize(TxBody(outputs, fee)) > MaxTxSize
ScriptsTooLarge == Referenced > MaxScriptSize

-----------------------------------------------------------------------------
(* build, up to and including the selection of more inputs *)

CanMerge(a) ==
  a.merge /\ \E i \in DOMAIN outputs : outputs[i].address = a.change

\* build returns or raises: its locals are gone.
End(reason) ==
  /\ stage' = "idle"
  /\ outcome' = reason
  /\ args' = NoArgs
  /\ original' = <<>>
  /\ rescued' = FALSE

\* The values build computes before it selects.
SelectedAmount ==
  Worth(inputs) ++ Minted(ask.mint) ++ Coin(ask.withdrawn - Deposits(ask))
RequestedAmount == Paid(outputs) ++ Burned(ask.mint) ++ Coin(EstimatedFee)
Trimmed == KeepAssets(SelectedAmount, AssetsOf(RequestedAmount))

AtLeastZero(n) == IF n > 0 THEN n ELSE 0
Remaining ==
  LET left == KeepPositive(Trimmed -- RequestedAmount)
  IN  WithCoin(left, AtLeastZero(left[ADA]))

\* With a change address a surplus of ADA must hold the minimum of the change;
\* without a surplus the shortage stays as it is.
Unfulfilled(a) ==
  LET missing == KeepPositive(RequestedAmount -- Trimmed)
      short   == missing[ADA]
      change  == MinLovelace(SelectedAmount -- Trimmed)
  IN  WithCoin(missing,
               AtLeastZero(IF a.change # NoAddress /\ ~CanMerge(a) /\ short < 0
                           THEN short + change ELSE short))

\* Mutant: the excluded UTxOs are not left out.
PoolWithExcluded ==
  ask.potential \cup
    (IF ask.wallet
     THEN {u \in UTxOs : Owner[u] = Wallet} \ (InputSet(inputs) \cup WithScript)
     ELSE {})

\* additional_utxo_pool: every potential input, and the UTxOs of the addresses
\* that are not seen yet, not excluded and carry no script.
Pool ==
  ask.potential \cup
    (IF ask.wallet
     THEN {u \in UTxOs : Owner[u] = Wallet} \
            (InputSet(inputs) \cup ask.excluded \cup WithScript)
     ELSE {})

Conflict == InputSet(inputs) \cap ask.excluded # {}

BuildStart(a) ==
  /\ Idling
  /\ builds < MaxBuilds
  /\ builds' = builds + 1
  /\ before' = outputs
  /\ UNCHANGED <<inputs, outputs, ask, given, edits, fee, collateral, tx, shared>>
  /\ IF Conflict THEN End("conflict") /\ UNCHANGED vars
     ELSE IF TooLarge THEN End("too_large") /\ UNCHANGED vars
     ELSE IF ScriptsTooLarge THEN End("scripts") /\ UNCHANGED vars
     ELSE /\ args' = a
          /\ outcome' = "none"
          /\ UNCHANGED <<original, rescued>>
          /\ IF ValueLt(Zero, Unfulfilled(a))
             THEN /\ stage' = "selecting"
                  /\ StartSelection([chain |-> Chain, draws |-> FALSE, pool |-> Pool,
                                     request |-> Unfulfilled(a),
                                     existing |-> Remaining, limit |-> NoLimit,
                                     respect |-> ~CanMerge(a)])
             ELSE stage' = "collateral" /\ UNCHANGED vars

\* A step of the selector that runs.
SelectorStep ==
  /\ stage = "selecting"
  /\ SelectionStep
  /\ UNCHANGED builderVars

\* The locals of select are gone.
ForgetSelection ==
  /\ job' \in Jobs
  /\ attempt' = 1
  /\ pc' = "idle"
  /\ level' = 0
  /\ target' = Zero
  /\ limit' = NoLimit
  /\ avail' = {}
  /\ picked' = <<>>
  /\ amount' = Zero
  /\ queue' = <<>>
  /\ idx' = 1
  /\ scratch' = {}
  /\ mark' = 0
  /\ outer' = NoOuter
  /\ drawn' = Zero

TimesPicked(u) == Cardinality({i \in DOMAIN picked : picked[i] = u})

SelectionDone ==
  /\ stage = "selecting"
  /\ pc = "selected"
  /\ stage' = "collateral"
  /\ inputs' = [u \in UTxOs |-> inputs[u] + TimesPicked(u)]
  /\ rescued' = (attempt > 1)
  /\ ForgetSelection
  /\ UNCHANGED <<outputs, ask, given, edits, fee, outcome, args, original, before,
                 collateral, tx, shared, builds>>

SelectionFailed ==
  /\ stage = "selecting"
  /\ pc = "failed"
  /\ End("selection")
  /\ ForgetSelection
  /\ UNCHANGED <<inputs, outputs, ask, given, edits, fee, before, collateral, tx,
                 shared, builds>>

-----------------------------------------------------------------------------
(* _set_collateral_return: with a reference script the builder provides    *)
(* collateral, although no script runs.  Which UTxOs it takes, whether     *)
(* they suffice and what is returned is the matter of Collateral; here it  *)
(* takes any from its three sources and may raise.                         *)

Continue(next) == stage' = next /\ UNCHANGED <<outcome, args, rescued>>

CollateralSources ==
  InputSet(inputs) \cup ask.potential \cup {u \in UTxOs : Owner[u] = args.change}

CollateralChoices ==
  IF collateral.inputs = {}
  THEN {S \in SUBSET CollateralSources : Cardinality(S) <= MaxCollateral}
  ELSE {collateral.inputs}

\* Collateral of an earlier build is kept, and so is its return when this one needs
\* none or fails.
SetCollateral ==
  /\ stage = "collateral"
  /\ UNCHANGED <<vars, inputs, outputs, ask, given, edits, fee, before, tx, shared, builds>>
  /\ IF Referenced = 0 \/ args.change = NoAddress
     THEN Continue("change") /\ UNCHANGED <<original, collateral>>
     ELSE \E S \in CollateralChoices :
            \/ /\ Continue("change")
               /\ UNCHANGED original
               /\ \E n \in ReturnSizes \cup {collateral.back} :
                    collateral' = [inputs |-> S, back |-> n]
            \/ /\ End("collateral")
               /\ collateral' = [collateral EXCEPT !.inputs = S]

-----------------------------------------------------------------------------
(* _add_change_and_fee *)

\* Mutant: what is minted counts, what is burned does not.
ProvidedWithoutBurn ==
  Worth(inputs) ++ Minted(ask.mint) ++ Coin(ask.withdrawn - Deposits(ask))

\* _calc_change: what is provided, what is requested, and the difference.  The
\* result of provided.multi_asset.filter is dropped in the code, so provided
\* keeps assets nobody requests.
Provided == Worth(inputs) ++ ask.mint ++ Coin(ask.withdrawn - Deposits(ask))

Uncovered(outs, f) ==
  LET requested == Paid(outs) ++ Coin(f)
  IN  Provided[ADA] < requested[ADA] \/ MultiAssetGt(requested, Provided)

LeftOver(outs, f) == KeepPositive(Provided -- (Paid(outs) ++ Coin(f)))

\* Mutant: the minimum of a change without its assets.
ChangeTooSmallForAda(outs, f) ==
  LET c == LeftOver(outs, f)
  IN  ~args.merge /\ c[ADA] < MinLovelace(Coin(c[ADA]))

\* The minimum is measured on the change itself when it is only ADA, else on
\* the assets with no coin.
ChangeTooSmall(outs, f) ==
  LET c == LeftOver(outs, f)
  IN  /\ ~args.merge
      /\ c[ADA] < MinLovelace(IF AssetsOf(c) = {} THEN c ELSE WithCoin(c, 0))

\* _merge_changes: into the last output to the change address without ADA, else
\* into the first output to it, else a separate output.
MergeTargets(outs) == {i \in DOMAIN outs : outs[i].address = args.change}
MergeIndex(outs) ==
  LET bare == {i \in MergeTargets(outs) : outs[i].amount[ADA] = 0}
  IN  IF bare # {} THEN Max(bare) ELSE Min(MergeTargets(outs))

MergeChanges(outs, c) ==
  IF args.merge /\ MergeTargets(outs) # {}
  THEN [outs EXCEPT ![MergeIndex(outs)].amount = c ++ @]
  ELSE Append(outs, [address |-> args.change, amount |-> c])

WithChange(outs, f) == MergeChanges(outs, LeftOver(outs, f))

\* Mutant: the outputs keep the change of the first pass when the second fails.
CalcChangeKeepingFirst(outs, f, next) ==
  IF Uncovered(outs, f) THEN End("uncovered") /\ UNCHANGED outputs
  ELSE IF ChangeTooSmall(outs, f) THEN End("change") /\ UNCHANGED outputs
  ELSE Continue(next) /\ original' = outs /\ outputs' = WithChange(outs, f)

\* One call of _calc_change on the outputs outs under fee f: either it raises,
\* or the change is merged and build goes on to the stage next.
CalcChange(outs, f, next) ==
  IF Uncovered(outs, f) THEN End("uncovered") /\ outputs' = outs
  ELSE IF ChangeTooSmall(outs, f) THEN End("change") /\ outputs' = outs
  ELSE Continue(next) /\ original' = outs /\ outputs' = WithChange(outs, f)

\* The first pass: the change under the fee of the transaction without change.
FirstPass ==
  /\ stage = "change"
  /\ args.change # NoAddress
  /\ UNCHANGED <<vars, inputs, ask, given, edits, before, collateral, tx, shared, builds>>
  /\ IF TooLarge
     THEN End("too_large") /\ UNCHANGED <<outputs, fee>>
     ELSE fee' = EstimatedFee /\ CalcChange(outputs, EstimatedFee, "fee")

\* The body that the caller of the last build holds: its list of outputs is
\* the builder's list until the builder gets another one.
Body == IF shared THEN [tx EXCEPT !.outputs = outputs] ELSE tx

\* Mutant: the fee stays that of the transaction without change.
SecondPassOldFee ==
  /\ stage = "fee"
  /\ UNCHANGED <<vars, inputs, ask, given, edits, before, collateral, builds, fee>>
  /\ tx' = Body
  /\ shared' = FALSE
  /\ CalcChange(original, fee, "body")

\* Mutant: the size is tested at the first estimate only.
SecondPassUntested ==
  /\ stage = "fee"
  /\ UNCHANGED <<vars, inputs, ask, given, edits, before, collateral, builds>>
  /\ fee' = EstimatedFee
  /\ tx' = Body
  /\ shared' = FALSE
  /\ CalcChange(original, EstimatedFee, "body")

\* The second pass: the fee of the transaction with that change, and the change
\* of the original outputs under it.
SecondPass ==
  /\ stage = "fee"
  /\ UNCHANGED <<vars, inputs, ask, given, edits, before, collateral, builds>>
  /\ IF TooLarge
     THEN End("too_large") /\ UNCHANGED <<outputs, fee, tx, shared>>
     ELSE /\ fee' = EstimatedFee
          /\ tx' = Body
          /\ shared' = FALSE
          /\ CalcChange(original, EstimatedFee, "body")

\* Without a change address only the fee is settled.
FeeOnly ==
  /\ stage = "change"
  /\ args.change = NoAddress
  /\ UNCHANGED <<vars, inputs, outputs, ask, given, edits, before, collateral, tx,
                 shared, builds>>
  /\ IF TooLarge
     THEN End("too_large") /\ UNCHANGED fee
     ELSE fee' = EstimatedFee /\ Continue("body") /\ original' = outputs

\* The body that is returned; its outputs are the builder's list itself.
BuildBody ==
  /\ stage = "body"
  /\ End("built")
  /\ tx' = TxBody(outputs, fee)
  /\ shared' = TRUE
  /\ UNCHANGED <<vars, inputs, outputs, ask, given, edits, fee, before, collateral, builds>>

-----------------------------------------------------------------------------

Args == [change : ChangeAddresses, merge : BOOLEAN]

BuilderInit ==
  /\ Idle
  /\ inputs = [u \in UTxOs |-> 0]
  /\ outputs = <<>>
  /\ ask = NoAsk
  /\ fee = 0
  /\ stage = "idle"
  /\ outcome = "none"
  /\ args = NoArgs
  /\ original = <<>>
  /\ before = <<>>
  /\ collateral = NoCollateral
  /\ tx = NoTx
  /\ shared = FALSE
  /\ given = [u \in UTxOs |-> 0]
  /\ rescued = FALSE
  /\ edits = 0
  /\ builds = 0

BuildStep ==
  \/ SelectorStep \/ SelectionDone \/ SelectionFailed
  \/ SetCollateral \/ FirstPass \/ SecondPass \/ FeeOnly \/ BuildBody

\* The user is done.
Finished == Idling /\ builds = MaxBuilds /\ UNCHANGED allVars

BuilderNext ==
  \/ UserEdit
  \/ \E a \in Args : BuildStart(a)
  \/ BuildStep
  \/ Finished

BuilderSpec == BuilderInit /\ [][BuilderNext]_allVars

\* build is one call: once it runs the interpreter runs it to its end.
FairBuilderSpec == BuilderSpec /\ WF_allVars(BuildStep)

-----------------------------------------------------------------------------
(* The ledger's side: what a body consumes and what it produces *)

\* The ledger takes the deposit of every certificate.
ExplicitDeposits(a) ==
  LET explicit == CertsOf(a, "explicit") IN Total([c \in explicit |-> c.coin], explicit)
LedgerDeposits(a) ==
  KeyDeposit * Cardinality(CredentialsOf(a, "registration"))
    + PoolDeposit * Cardinality(CredentialsOf(a, "pool"))
    + ExplicitDeposits(a) + TotalProposalDeposit(a)
Refunds(a) == KeyDeposit * Cardinality(CredentialsOf(a, "deregistration"))

Consumed(t) ==
  WorthOf(t.inputs) ++ Minted(t.ask.mint) ++ Coin(t.ask.withdrawn + Refunds(t.ask))
Produced(t) ==
  Paid(t.outputs) ++ Burned(t.ask.mint)
    ++ Coin(t.fee + t.ask.donation + LedgerDeposits(t.ask))

\* What _calc_change does not count: the donation, explicit deposits equal to
\* another one, refunds, and that a repeated input is spent once.
EqualDeposits(a) == ExplicitDeposits(a) - StatedDeposits(a)
Uncounted(t) ==
  (Worth(t.listed) -- WorthOf(t.inputs))
    ++ Coin(t.ask.donation + EqualDeposits(t.ask) - Refunds(t.ask))

-----------------------------------------------------------------------------
(* Properties *)

Returns == stage = "body" /\ stage' = "idle"

\* The body that build returns for a change address is out of balance by what
\* _calc_change leaves out and by nothing else: the two passes over the fee, the
\* selection, merging, minting and burning lose and create nothing
\* (txbuilder.py:628-773).  Where nothing is left out, the body is balanced.
OffByUncounted ==
  [][Returns /\ args.change # NoAddress /\ ~rescued =>
       Produced(tx') = Consumed(tx') ++ Uncounted(tx')]_allVars

\* The bytes of the scripts that the UTxOs of S carry, each counted once.
Carried(S) == Total(ScriptSize, S)

\* The fee of the returned body pays for the returned body, although it was
\* estimated on another one, with another change and another fee in it, and for
\* the reference scripts on the inputs that the user added
\* (txbuilder.py:735-773, 1237-1252).  It is short at most by the scripts on
\* potential inputs that a build selected; see FeeIsMinimum.
FeeSufficient ==
  [][Returns =>
       tx'.fee >= MinFee(tx', Carried({u \in tx'.inputs : given[u] > 0}))]_allVars

\* A returned body is within max_tx_size, although the test is made at the estimates
\* of the fee, on bodies with another change and another fee, and never on the
\* body that is returned (txbuilder.py:1140-1155).
WithinSizeLimit ==
  [][Returns => TxSize(tx') <= MaxTxSize]_allVars

\* Unless merge_change is asked for, the change of a returned body is an output
\* of its own that holds the minimum ADA (txbuilder.py:660-705).
ChangeHoldsMinimum ==
  [][Returns /\ args.change # NoAddress /\ ~args.merge =>
       LET last == tx'.outputs[Len(tx'.outputs)]
       IN  last.address = args.change /\ last.amount[ADA] >= MinLovelace(last.amount)
    ]_allVars

\* A build spends nothing it was not offered: what the user added, as often as it was
\* added, potential inputs, and, once, UTxOs of the input address that are not
\* excluded and carry no script; edits between builds included
\* (txbuilder.py:1220-1226, 1390-1415).  Only a potential input can be in the list
\* more often: build adds them to the pool without looking at what it has seen
\* (txbuilder.py:1399-1404).
OnlyOfferedSpent ==
  [][Returns =>
       \A u \in tx'.inputs :
         \/ u \in ask.potential
         \/ inputs'[u] = given[u]
         \/ /\ inputs'[u] = given[u] + 1
            /\ ask.wallet /\ Owner[u] = Wallet /\ u \notin WithScript \cup ask.excluded
    ]_allVars

\* Whatever a build raises, and however many steps after its call, the outputs are
\* those it was called with, so that the user can add inputs and build again.  The
\* exception is a transaction that grows too large in the second pass: the change
\* of the first pass stays in the outputs, on top of what they held, and until an
\* edit every build refuses (txbuilder.py:721-771, 1149-1155).
FailureKeepsOutputs ==
  Idling /\ outcome \notin {"none", "built"} =>
    \/ outputs = before
    \/ /\ outcome = "too_large" /\ TooLarge
       /\ Len(before) <= Len(outputs)
       /\ \A i \in DOMAIN before : \A k \in Kinds :
            before[i].amount[k] <= outputs[i].amount[k]

\* Every build ends.
BuildEnds == stage # "idle" ~> stage = "idle"

\* A body that build returns for a change address is balanced (the balance
\* equation of test_txbuilder.py:2558).
Balances(t) == t.change # NoAddress => Produced(t) = Consumed(t)
ReturnedBalanced == outcome = "built" => Balances(tx)

\* The fee of a body that build returns is the minimum fee for it or more, with the
\* scripts of all the UTxOs it spends (utils.py:88-91).
FeeIsMinimum == outcome = "built" => tx.fee >= MinFee(tx, Carried(tx.inputs))

=============================================================================
