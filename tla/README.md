# A TLA+ verification of pycardano

pycardano is a Python library that builds, signs and submits Cardano
transactions.  Its hard part is not any single conversion but the order in which
mutable objects are edited, copied and reused: a `TransactionBuilder` that
outlives its builds, selectors that share one running total, chain contexts that
cache what a remote service said, sets that keep a list and a dictionary in step.
These modules model those parts from the source under `src/pycardano`, check
them with TLC on small instances, and prove the properties that matter most with
TLAPS for every value of the constants.

Contents: [inventory](#1-inventory), [plan](#2-plan),
[modules](#3-modules-and-how-they-correspond-to-the-code),
[runs](#4-runs-bounds-and-what-they-show), [fairness](#5-fairness),
[proofs](#6-what-is-proved), [divergences](#7-where-code-and-documentation-part),
[limits](#8-what-is-not-modelled-and-why).

## 1. Inventory

| component | source | state it keeps | operations | what is hard | what makes it correct |
|---|---|---|---|---|---|
| Value algebra | `transaction.py`, `utils.py` | none | sums, differences, `<=`, `<`, `filter`, minimum ADA | the order of values is partial and has a key test; quantities may be negative | `<=` on amounts is the pointwise order |
| Coin selection | `coinselection.py` | locals of one `select`; the caller's `existing_amount` object | `LargestFirstSelector.select`, `RandomImproveMultiAsset.select` | one object shared by the selectors of a chain; recursion for change; limits where 0 is falsy | what is returned pays the request; no UTxO twice; termination |
| Builder: balance, change, fee | `txbuilder.py` | `_inputs`, `_outputs`, `_fee`, potential and excluded inputs, mint, certificates, withdrawals, proposals, donation | `add_*`, `build` | two estimates of the fee, two computations of the change, failures in between, builds after builds | consumed = produced; the fee pays for the body; the change is an output; nothing unoffered is spent |
| Builder: packing of tokens | `txbuilder.py` 775-878 | none | `_pack_tokens_for_change` | the boundary of `max_val_size` | every token is in exactly one bundle, every bundle fits |
| Builder: scripts and redeemers | `txbuilder.py` 225-461, 574-626, 1004-1039, 1614-1667 | redeemers by input, policy, withdrawal and certificate; scripts, datums; `_should_estimate_execution_units` | `add_script_input`, `add_minting_script`, `add_withdrawal_script`, `add_certificate_script`, redeemer indexes, estimation of execution units on a copy | indexes are positions in sorted lists that change while selection goes on; units are estimated on another builder | every redeemer points at what it was given for; units are those of the final transaction |
| Builder: collateral | `txbuilder.py` 1477-1612 | `collaterals`, `_collateral_return`, `_total_collateral` | `_set_collateral_return` | state of the last build is kept | collateral covers the share of the fee |
| Builder: witnesses and signing | `txbuilder.py` 880-1002, 1091-1218, 1669-1744, `witness.py` | required signers, native scripts | collection of key hashes, fake witnesses, `build_and_sign` | the fee is paid for fake witnesses, the transaction carries real ones | as many fake witnesses as real ones |
| Ordered sets | `serialization.py` 1137-1238 | `_list`, `_dict` | `append`, `extend`, `remove`, `__contains__`, copies | two structures in step; keys of items that change | a sequence without repetitions |
| Blockfrost context | `backend/blockfrost.py`, `backend/base.py` | `_epoch_info`, `_epoch`, `_genesis_param`, `_protocol_param`, temporary files | the cached properties, `submit_tx_cbor`, `evaluate_tx_cbor`, `utxos` | the server moves between two requests; requests fail; three caches share one test | a read is no older than the epoch it began in; files are removed |
| Ogmios contexts | `backend/ogmios_v5.py`, `backend/ogmios_v6.py` | last known slot, refresh time, protocol and genesis parameters, UTxO cache | cached properties, `_utxos` | one tip test consumed by two properties | as above |
| cardano-cli context | `backend/cardano_cli.py` | last known block, protocol parameters, UTxO cache | cached properties, `submit_tx_cbor` with its legacy retry | retry after an unclear failure | success is only reported of what the node has |
| Kupo extension | `backend/kupo.py` | UTxO cache keyed by another service's slot | `_utxos` | two services at different slots | fresh UTxOs |
| Redeemers and Plutus data | `plutus.py` | none | `get_tag`, `get_constructor_id_and_fields`, CBOR and JSON of `PlutusData` and `RawPlutusData` | ranges of constructor tags; definite and indefinite lists | the same data is read, and the datum hash survives |
| Serialization framework | `serialization.py`, `cbor.py`, `types.py` | none | `to_primitive`, `from_primitive` by type hints | optional fields, unions tried in order, encodings of other programs | round trips; a transaction that is read and written keeps its id |
| Addresses | `address.py`, `network.py` | none | header byte, pointer encoding | variable-length integers | round trips |
| Native scripts | `nativescript.py` | none | encodings | recursion | round trips |
| Certificates, pools | `certificate.py`, `pool_params.py` | none | encodings | - | round trips |
| Governance | `governance.py` | none | encodings, texts of ids | headers of CIP-129 against those of addresses | round trips; no text is taken for another kind |
| Keys, signatures | `key.py`, `hash.py` | none | wrappers of a cryptographic library | extended keys | hashes of trimmed keys |
| HD wallet | `crypto/bip32.py` | one node of a derivation tree, which public derivation changes in part | private and public derivation | hardened indexes; a private key that stays behind | public derivation commutes with private |
| Message signing | `cip/cip8.py` | none | `sign`, `verify` | which key, in which form, is compared with which part of the address | verified means signed by the address's key |
| Bech32, CIP-14, metadata | `crypto/bech32.py`, `cip/cip14.py`, `metadata.py` | none | conversions | - | round trips |

How they interact.  The user edits a `TransactionBuilder` and calls `build`
(plain calls on one thread).  `build` asks the chain context for protocol
parameters and for the UTxOs of its input addresses, hands the missing amount
and one mutable `existing_amount` to each selector in turn until one does not
raise, sorts the inputs, indexes redeemers, sets collateral, estimates execution
units on a deep copy of itself through the context, adds change and fee in two
passes and returns a `TransactionBody` that shares the builder's list of
outputs.  Contexts talk to services that move on independently of the program.

No component runs threads.  The concurrency of this code is that of a client
with the chain (a server changes state between two requests of one property
read), of aliases (the body and the builder hold one list, the selectors one
value, a set holds objects others may change), and of repetition (edit, build,
edit, build).  The hazards, each at its line, are in `PROJECT.json`.

## 2. Plan

Done, in this order:

1. `Values`, `CoinSelection` (with the abstract `SelectionContract`),
   `TxBuilder` composed with it, `OrderedSet` (with the abstract
   `UniqueSequence`), `BlockfrostContext`, `ScriptWitnesses`, and their proofs.
2. The rest of the builder: `Collateral`, `Signing` on top of it, and
   `TokenPacking` with its proofs.
3. The other contexts: `TipContext` (Ogmios v5 and v6, cardano-cli, Kupo),
   `UtxoQuery` (the conversion of all five), `CliSubmit`.
4. Conversions: `Serialization`, driven by the table of classes in `LedgerTypes`;
   `PlutusDatum` and `Identifiers` on top of it.
5. `HDWallet` and `MessageSigning`, with their proofs.

6. The proofs of every safety property but those of nested data: the selectors
   and their refinement of the contract, the builder, redeemers and execution units,
   the other contexts and their queries, collateral and signatures, signed messages,
   and identifiers, from the bits of Bech32 up.

Left: the validity interval that the first build of a script transaction fixes;
prices of execution units and scripts given as reference inputs; the key files and
the size limits of metadata.  A proof still worth making: that the packed change of `TokenPacking`
pays what `TxBuilder` takes as one output.

Every module that theorems are about keeps its parameters as CONSTANTS with named
assumptions, one action per operation or loop iteration, and no recursive operator:
recursion is a recursive function there, or a fold.  Nor has it a CASE with several
arms, which tlapm 1.4.5 does not hand to its SMT solver soundly; alternatives are
disjuncts or nested IFs.

## 3. Modules and how they correspond to the code

**Sums.**  The sum of natural numbers over a set, as the number of its units, which
`Values` and `Collateral` count coin and tokens with.

**Values.**  A normalised `Value` is a function from kinds of money (ADA and the
native assets) to integers.  `++` and `--` are `__add__` and `__sub__`, which
drop zero quantities; `ValueLe` is `__le__` with its key test; `KeepAssets` and
`KeepPositive` are the two uses of `MultiAsset.filter`.  `MinLovelace` stands
for `min_lovelace_post_alonzo`: linear in the number of assets, one step where
the coin takes more bytes, and a coin of 0 measured as 1 ADA, as the code does.

**CoinSelection.**  One call of `select`, one step per loop iteration, driven
through a chain as `build` drives it.  `amount` is `selected_amount`, which in
the code *is* the `existing_amount` object of the caller: when a selector raises
(`Raise`), the next one starts from it (`Enter` with `shared`).  `level` 1 is the
recursive call for more change.  `scratch` is the list `_improve` recurses on,
`mark` its `num_selected_before`.  A job says which selectors, which pool,
which request, which limit, whether change must respect the minimum and
whether a generator of the user supplies the random indexes (`draws`); then a
draw may also raise or crash.  Ties of `sorted` and random indexes are choices.

**SelectionContract.**  What the docstring of `select` promises: some subset
that pays, and its change, or an exception.  Its `HandOver` step is the weaker
contract of a chain: a selector that raised leaves what it took in the existing
amount of the next.  `CoinSelection` ends with the mapping: `Held` is what the
existing amount has become, `Contract` the instance, `ImplementsContract` the
refinement, which is both checked and proved.

**TxBuilder.**  Extends `CoinSelection` and shares its variables.  `inputs`
counts how often a UTxO is in the list `_inputs`; `ask` holds the fields that
only the user writes; `stage` is the place inside `build` between two
exceptions: selecting, first pass of change and fee, second pass, body.
`shared` says that the body the caller holds still shares the builder's list of
outputs: until another list replaces it, edits show through (`Body`).  `Worth`,
`Paid`, `Unfulfilled`, `Remaining`, `Pool`, `Uncovered`, `ChangeTooSmall`,
`WithChange` follow the code expression by expression, including what is
surprising: the filter whose result is dropped, the comparison that is partial,
the shortage test `< 0`.  A UTxO may carry a script.  `given` counts how often the
user added a UTxO, and so how often its script is in `_reference_scripts`; the fee
has a price for each of these bytes (`ScriptFee`, any prices in place of the tiers).
With such a script `build` also sets collateral (`SetCollateral`), which is any of the
UTxOs it may come from and stays for later builds, as it widens the bodies whose size
makes the fee; how it is chosen is the matter of `Collateral`.  `before` remembers the
outputs that the last build was called with.  `MCTxBuilder` holds the instances; in
the larger one a variable tells two programs apart.

**ScriptWitnesses.**  A `Redeemer` is an object in `heap`, into which the builder
writes tag, index and units; the user may hand the same object in twice.
`spend` is `_inputs_to_redeemers`, `lists` the three lists of scripts and
redeemers.  Inputs and scripts are numbers in their sorting order, so that an
index is a count of smaller ones; an input listed twice counts twice, as in
`enumerate`.  `AddScriptInput` records datum, redeemer and script in the code's
order, each before the next can raise.  `build` is `Prepare` (selection, sorting,
`_set_redeemer_index`), then `SkipEstimate`, or `CopyBuilder` and `EstimateUnits`:
the flag is cleared in the builder before the copy is built, the copy selects by
itself, and its answers, keyed by its own pointers, are looked up with the
builder's.  `BuildRaises` is any exception of selection, collateral, copy,
evaluation, change or fee.  An estimate remembers the purpose and the body it was
made for.  `Named` and `Needed` are the ledger's side.

**OrderedSet.**  `list` and `dict` with the dictionary's index 1-based (0: no
key).  `extend` appends item by item, so a set can be seen half extended;
`remove` moves the later indices; `Rebuild` is `__deepcopy__` and
`from_primitive`, which append the items of the old list to a new set.  If the
items are not `frozen`, their owner may change their content, hence their key.
**UniqueSequence** is what the user sees.

**BlockfrostContext.**  A cached value is its age: the epoch the server was in
when it answered.  A read is one step when cached, else two requests with the
server free to move in between and the second free to fail.  `epoch` 0 counts as
missing because the code tests truth.  `submit` and `evaluate` write a
temporary file, call, and remove it on some paths.

**Collateral.**  `_set_collateral_return` as one step of `build`: its three
sources, each sorted and taken from until amount and return suffice (a fold that
takes last what is popped last), and its two refusals; `collaterals`, the return and the total stay in the builder, as in the
code, when the call raises and when a later build needs no return.  A return of
0 is measured as 1 ADA (`Measured`).

**Signing.**  Extends `Collateral`.  `items` are certificates, withdrawals and
votes; which kinds the builder collects keys from and which the ledger asks for are two
sets (`CollectedCertificates`, `OtherCertificates`).  Native scripts are trees;
`Dfs` is `_dfs`, and `SatisfiedBy` the ledger's reading of them.
`BuildAndSign` is the whole call: `build` (selection may take any potential
inputs), the fake witnesses that the fee pays for (told apart by the bits of
their number that the masks let through), the required signers it fills in, and
the signatures of the given keys.

**TokenPacking.**  `_pack_tokens_for_change` with one step per asset: `buffer` is
`temp_assets`, `bundle` the multi-asset of `output`, `old` is `old_amount`; then one
step per output of `_calc_change`.  Sizes and minima are any functions of the set
of tokens.

**TipContext.**  One module for three backends and the Kupo wrapper, because they
differ in the test that decides on a refresh only.  The chain is a count of its
changes with the times they came (`born`); a cached answer is the version it was
made of and its time.  A request is two steps, so that blocks, forks and ticks fall
in between, and it may fail.  `store` holds both UTxO caches, keyed by slot, with
their ttl; `Expire` is the clock of the caches.  **UtxoQuery** is what the five
`_utxos` make of an answer: tokens grouped by policy, datums by hash or inline,
scripts with CBOR wrappers to remove.  **CliSubmit** is `submit_tx_cbor` of
cardano-cli command by command, over a node that may accept and whose answer may be
lost.

**Results.**  What a call comes to: a value, or one of the exceptions that callers
tell apart.

**Serialization.**  `ToPrimitive` and `Restore` follow `to_primitive`,
`_restore_typed_primitive` and the `from_primitive` of each kind of class (`shape`):
arrays with optional fields, maps by key, dictionaries sorted by their keys'
encodings, coded classes, unions that try their members and catch one exception
only, hooks, ordered sets, and `validate`.  **LedgerTypes** is the table of
declarations: every dataclass of bodies, outputs, witness sets, certificates, pool
parameters, governance, scripts and metadata.  **PlutusDatum** adds datums:
constructors and tags, the conversions of `PlutusData` and `RawPlutusData` and their
JSON.  **Identifiers** works on bytes: headers, pointers as variable-length numbers,
the regrouping of bits in Bech32, CIP-105 and CIP-129 texts, Byron payloads with
their checksum.  Hashes, transaction ids, indexes, numbers of pointers and the bytes
of other programs are its constants.  A behaviour writes an identifier or starts from
such bytes (`WriteId`), reads it with the reader of its class (`ReadId`) and writes
what was read (`RewriteId`).  In `MCCodecs` an object is written, its encoding perhaps replaced by
one another program would write, read, and written again.

**HDWallet.**  Cryptography is symbolic: a private key is the sequence of its
summands, a point the multiple of a scalar, a hash its arguments.  A wallet carries
as history its `twin`, the node that private derivation along the same indexes comes
to, and the `mode` of its last derivation.  `derive_from_path` is one step per element,
on the copy `work`.  **MessageSigning** extends it: keys of a wallet or plain ones
sign, messages of other programs arrive or are altered, and `Verify` is the whole
call, its exception included.

`*Proofs` modules hold the theorems.  `MC*` modules hold the values of constants
for TLC.  Definitions preceded
by "Mutant:" are not part of the model: each is a plausible mistake in the
definition that follows it, and shows that the named property notices it.

## 4. Runs, bounds and what they show

What a run shows on its small instance is also proved, for every value of the
constants, but for the properties at the end of section 6.

| run | what it shows |
|---|---|
| `Selection` | For four UTxOs (large, small with tokens, dust), nine requests, two existing amounts, all limits 0 to 3 and none: no UTxO is taken twice (`PickedOnce`), the selector tried first pays the request (`FirstSelectorCovers`), nothing affordable is refused (`FailureJustified`), missing change arrives (`MissingChangeArrives`), every call ends (`Terminates`), and selectors and chains implement `SelectionContract` (`ImplementsContract`). |
| `SelectionChain` | `RequestCovered` is violated: with two selectors, what is returned need not pay the request. |
| `BuilderPayments` | Two programs over three UTxOs at two addresses, one with a script that others refer to, with four edits.  Payments: three outputs, minting and burning one token, potential and excluded inputs, an input address, two builds.  Deposits: all kinds of certificates, proposals, withdrawals, donations, repeated inputs, one build.  The returned body is off balance by what `_calc_change` leaves out and nothing else (`OffByUncounted`); the fee pays for the body it is in and for the scripts on the inputs the user added (`FeeSufficient`); the body is within the size limit (`WithinSizeLimit`); change holds its minimum (`ChangeHoldsMinimum`); whatever a build raises, its outputs are those it was called with, and if the second pass found it too large they hold all of these and no build succeeds before an edit (`FailureKeepsOutputs`); nothing unoffered is spent, and nothing more often than it was offered but a potential input (`OnlyOfferedSpent`); every build ends (`BuildEnds`). |
| `BuilderScripts` | `FeeIsMinimum` is violated: a potential input that carries a script is selected, and the fee leaves its script out. |
| `BuilderDonation` | `ReturnedBalanced` is violated: a donation leaves the body unbalanced. |
| `Witnesses` | Two script inputs, a key input that sorts before them, a policy that another one moves, withdrawals, two certificates, two redeemer objects that bring units or not, four edits and two builds: `AllOrNone` and `ZeroOnlyAfterLoss`, every redeemer of a returned transaction points at what it was given for, so that no two of different purposes collapse in the redeemer map, and an orphan stems from a refused call (`RedeemersPointHome`), fresh estimates are for the very body returned (`EstimatesFit`), no script is sent in vain (`NoScriptInVain`). |
| `BlockfrostCache` | Two properties, epochs of two ticks, seven ticks, two calls, requests that fail (`ReadsFail`): an answer is outdated only where `_epoch_info` has overtaken it, and never if the property is read alone and no request for it has failed (`StaleReadsExplained`); temporary files stay only after an exception that escapes (`FilesLeftByEscapes`). |
| `BlockfrostStale` | `ReadsAreCurrent` is violated, with no request that fails (`ReadsFail` is FALSE): the protocol parameters are cached, an epoch ends, `epoch` is read and takes the refresh, and the protocol parameters are returned as they were. |
| `OrderedSet` | Three objects, three contents, extends of up to two items: list and dictionary agree (`SetInv`) and the set implements `UniqueSequence` (`ImplementsUniqueSequence`). |
| `Contexts` | Three kinds of program.  Caches: three backends bare or wrapped, blocks, forks, a lagging indexer and failing requests: UTxOs are at most the ttl of the slot behind the node, and with forks or Kupo were asked for within the ttl of the caches (`UtxosFresh`); protocol parameters are at most an interval and that ttl behind (`ParamsBounded`).  Queries: each of five services, one output of every kind alone, before and after another: all unspent outputs come back, once, as they are on the ledger (`UtxosAreLedgers`).  Submissions: what the caller is told is true of the node (`OutcomeIsTrue`). |
| `Signing` | Four kinds of program.  Collateral: five UTxOs from three sources, four edits, two builds: enough, and all of it returned or refused with reason (`CollateralAccounted`).  Keys: certificates, withdrawals, votes, native scripts, required signers, overrides, three edits, two builds: the signatures are those the ledger asks for (`WitnessesSuffice`), and the fee was estimated for as many as the ledger asks for, short at most by the keys that no collection finds, and for as many as there are, short at most by forced ones among these or that nobody asks for (`FeeCoversWitnesses`).  Change: five tokens of two policies in every order, five limits, four amounts of ADA: `PackingSound`.  Wallets: three derivations, then messages: `PublicMeetsPrivate` and `VerifiedMeansSigned`, and what is signed verifies (`SignedVerifies`). |
| `Codecs` | Every class of `LedgerTypes`, nine classes of datums, 2 700 identifiers: what is written is read back (`RoundTrip`) and written again to the same bytes, or what another program wrote to its own or our form (`RewriteStable`); no two members of a union accept one encoding (`OneMember`); data, JSON and datum hash survive (`DatumKept`); identifiers survive as text and bytes (`IdentifierKept`), and no text is taken for another kind (`NotMistaken`). |

Redeemers are interchangeable in `Witnesses`, hence its symmetry set; `tx` is
forgotten at the next edit, since its properties are about the transaction as it was
returned.

Bounds.  Lovelace is counted in units of about half the minimum ADA of an
output, so that a few small UTxOs reach every boundary: request covered exactly,
change below, at and above its minimum, coin at the width where its encoding grows.
Four UTxOs are enough for every selector to take some in each phase, call itself
recursively and still leave some.  `WideFee` lies at or below `FeeConstant`, as on
mainnet (the constant 155381 exceeds 65536, from where a fee takes five bytes): the
width of the fee field never changes between the passes.  `MaxEdits` and
`MaxBuilds` bound the user; two builds are the least with a builder that remembers
one.  `MaxTxSize` 10 in `BuilderPayments` is passed by some bodies before their change
is in them and by others only with it, so both exceptions for large transactions
occur.  `MaxRepeats` lets an input be added twice, which takes its script of two bytes
beyond `MaxScriptSize` 3, so that scripts are refused as well; of the two ranges of
`MCBytePrice` the second costs twice the first, and a script reaches into it.
`MaxCollateral` 1 and one size of a return in `ReturnSizes` are enough for a second
build to find collateral and return of the first, and for both to widen a body.
In `Contexts` time is bounded by 4 ticks and the chain by 3 changes, against a
default interval of 2, a ttl of the slot of 1 and of Kupo of 2: enough for an answer
to be cached, overtaken, expired and asked for again.  In `Signing` coin is counted in
halves of an ADA, indexes are hardened from 4, and keys are derived to depth 3: a
public derivation after a private one and a private one after that.  In `Codecs`
the examples of a class are a first one and all that differ from it in one place,
so every optional field is absent and present and every member of every union
occurs; constructors are 0, 1, 2, 6, 7, 127, 128, 200 and 1000, the two sides of every
change of tag; numbers lie on both sides of every length a pointer or an index can
take.  There are three hashes and three ids of transactions, of which two begin with the
header of an address with a pointer; the bytes of other programs
(`MCOtherBytes`) have every header, truncated and overlong payloads, padded and
unfinished pointers, and Byron arrays that are wrong in each place.
`fee_buffer` is a constant added to the fee on all sides and is left out.

## 5. Fairness

`FairSpec` and `FairBuilderSpec` put weak fairness on the steps of a running
`select` or `build`: they are the iterations of one sequential call, and the
interpreter runs a call to its end.  Nothing obliges the user to edit or to call.
The contexts, the set, signing and the conversions have safety properties only, and
no fairness.

## 6. What is proved

All with SMT, Zenon and, for the temporal steps, LS4, from the named assumptions of
the modules.  Each safety property rests on an inductive invariant, of which TLC was
asked first on the run of its module.

**Selectors** (`CoinSelectionProofs`).
* On amounts Python's `<=` is pointwise (`LePointwise`), a partial order
  (`LePartialOrder`) and monotone in what is added (`LeMonotone`).
* `SelectionInvariant`: `SelectionInv` is inductive.  The promise alone, "what is
  returned pays the request", is not: one must know what the running call holds
  (`RunningAmounts`: in the first attempt, existing amount plus what was drawn), which
  requests lie behind (`QueueCovers`), and that coverage is never lost
  (`CoveredFromThenOn`).  Hence the selector tried first keeps the promise
  (`FirstSelectorIsSound`), coverage is stable (`CoverageIsStable`), and the upper
  bound of `_improve` never decides (`UpperBoundIsRedundant`).
* `TakenInvariant`: `SelectorInv` adds where UTxOs come from and what they are worth.
  `PickedOnce` needs that what is left over is the pool without what was taken, that
  a round of `_improve` looks only at what was taken before it, and that `scratch`
  only shrinks (`PoolInv`); the failure of a chain needs that `drawn` is the worth of
  what was taken and that the amount held is at least that (`SumInv`), so that an
  exhausted pool was worth too little; both need what a recursive call asks for and
  that no limit stays no limit (`RequestInv`).  Hence `NothingPickedTwice`,
  `FailuresAreJustified` and `MissingChangeTheorem`.
* `SelectorsImplementContract`: the refinement of `SelectionContract`.  A `Return`
  is `Select` with the set of UTxOs picked, `Raise` before the last selector is
  `HandOver`, at the last one `Raise`, and everything else stutters.  Sums over a set
  of UTxOs are cardinalities of the set of their units (`Total` in `Sums`), which
  lets the library's facts on finite sets do what an induction would (`SumsProofs`).

**Builder** (`TxBuilderProofs`, which uses the invariant of the selectors).
`BuilderInvariant`: `BuilderInv`, through any edits and builds, says

* where every input comes from and which may be there twice (`OfferedInv`), which
  gives `OnlyTheOfferedIsSpent`;
* that the selectors serve the request of the running build (`JobInv`), so that what
  they return covers every asset that is asked for, if none failed before
  (`Covers` in `PassInv`);
* the two passes (`PassInv`): between them the outputs are the original ones with the
  change computed under the first fee, and that fee is no more than what the outputs
  without change cost.  The second change is therefore no more than the first, its
  output no larger, and the fee, which was estimated on the first, pays for the
  body and keeps it in the size limit (`FeesSuffice`, `SizesAreLimited`).  What the
  returned body has besides its outputs, and what is paid for scripts, is the same in
  all three bodies: collateral is set before the first of them, and the
  bytes that count are at least those of the scripts on inputs of the body that the user
  added (`ReferencedAmounts`, `ScriptFeeGrows`).  That argument breaks if the second fee takes more bytes than the first; `FeeInv` says it
  does not: every fee contains the constant of the protocol, which alone is of full
  width (`FeeWidthAssumption`);
* what is about to be returned (`BodyInv`): it is paid for, small enough, ends with
  its change (`ChangeIsAnOutput`), and what it pays with its fee is what
  `_calc_change` counts as provided.  Unfolded on the ledger's side, this is
  `NothingElseIsUncounted`: the account is out by repeated inputs, donations, equal
  deposits and refunds, and exactly by these.

`FailuresKeepOutputs` is about two states that lie a whole build apart, and rests on
`KeptInv`: up to the first pass the outputs are those that the build was called with,
between the passes `original` still is, and the outputs are `original` with a change
that takes nothing away from any output, which is what is left of them if the second
pass finds the transaction too large.

**Redeemers** (`ScriptWitnessesProofs`).
* `AllOrNoneTheorem` and `ZeroUnitsTheorem`, by the inductive `UnitsInv`: besides the
  two properties it says that the flag is down while a copy is being built and when
  change is added.  Each addition needs one fact only (`Accepted`): what
  `_consolidate_redeemer` lets in fits what is there.
* `RedeemersPointHomeTheorem`, `EstimatesFitTheorem`, `NoScriptInVainTheorem`, by
  `PointersInv`: which lists an object is in and under which tag (`TagsInv`), which
  certificate it counts to (`TargetsInv`, `CertificatesInv`), what refused calls have
  left (`RefusedInv`), that indexes are those of the sorted lists as long as a build
  runs (`IndexesInv`), and that fresh units are the evaluation of this body
  (`LostInv`, `FreshInv`).  The indexes are positions in sorted lists, counted as
  cardinalities; the greatest-member lemma and the injectivity of positions are
  proved on the way.

**Contexts.**
* Blockfrost (`BlockfrostProofs`).  `ContextInvariant` for epochs of any length and
  time without bound: the server is in time, nothing is newer than the server, and
  what a sole reader holds is as new as `_epoch_info`.  The properties of the run
  follow (`StaleReadsTheorem`, `FilesTheorem`), and that a request that is left out
  would have brought nothing new (`SkippedRequestTheorem`).
* Ogmios, cardano-cli and Kupo (`TipContextProofs`).  `ContextInvariant` for any
  interval and times to live: versions arrive in order (`WorldInv`), the cached slot
  was current at most its time to live ago (`TipInv`), no entry of either UTxO cache has
  outlived its time to live or, without forks, is older than the slot it is filed under
  (`StoreInv`), a
  request under way has seen no older a state than its key says (`BusyInv`), and
  parameters are as old as the last test of the tip that led to a fetch
  (`ParamsInv`).  The bounds on the age of an answer (`UtxosAreFresh`,
  `ParamsAreBounded`) are sums of such ages and alone not inductive.
* Submission (`SubmitTells`): what is known of the node at each command of
  `submit_tx_cbor`.
* Queries (`QueriesTellTheLedger`), for any outputs of an address, with any tokens in
  any order: the loop over the outputs has kept each that is unspent, once and in
  the form of `ToUtxo` (`CollectedOnce`), the loop over its tokens has set every
  quantity and no other (`AssetsAreTokens`), and a script that does not fail the call
  is the one on the ledger (`ScriptKept`).

**Ordered sets** (`SerializationProofs`).  `OrderedSetInvariant`: through every
operation, with or without mutation, the dictionary numbers the list, each position
once (`NumberingTheorem`, `NoTwinsTheorem`); the proof of `Remove` counts how indices
move.  `Refinement`: the set implements `UniqueSequence`.  Mid-copy states need the
stronger `CopyInv`, which says which prefix of the source has been rebuilt.

**Identifiers** (also `SerializationProofs`).  `KeptTheorem` and `NotMistakenTheorem`,
for any hashes of 28 bytes, any ids of transactions of 32, any indexes of 16 bits, any
numbers in pointers, and whatever another program wrote.
* The inductive invariant `IdInv` is simple: it says what `wire`, `got` and `again` have
  been computed from (`OwnWire`, `OtherWire`).  The work is in the lemmas on the
  operators, in layers.  `GroupsReadBack`: grouping by eight bits what was grouped by
  five gives the bytes back, with at most four bits of padding, all of them 0, so that
  `convertbits` does not refuse it; the length of the text decides whether there is one
  (`TextReadBack`).  `PointerReadBack`: the digits of a number to the base 128 are
  unique, so that three numbers are read back from any place in the bytes;
  `PointerRead` is the converse, that a pointer whose numbers are not padded is written
  as it was read.  `ShelleyReadBack`, `ByronReadBack`, `CredentialReadBack`,
  `DRepReadBack` and `ActionReadBack` put a class together from its parts, and
  `ShelleyRead`, `ByronRead` and `BytesRead` do the same from arbitrary bytes;
  `ReadsOwn` is their sum over the classes.
* `NotMistaken` is a matter of sizes and headers: `ReadSizes` says how many bytes an
  address has that can be read, and what remains after the sizes is told apart by the
  first byte (`CredentialTaken`, `AddressTaken`,
  `ActionTaken`), down to the exceptions that the property names.

**Collateral and signatures** (`SigningProofs`).  `SigningInvariant`: what the last
build has made of the builder it found, through any edits and builds.
* `CollateralIsAccounted`.  What one source adds is a fold over a set in the order of
  popping.  `LoopPasses` is its loop invariant, over the tail of candidates that are
  still to be popped: coin and tokens are those of what was chosen, all of it is
  eligible, and what was passed over was passed over because amount and return
  sufficed or because it is not eligible.  `ChosenSound` strings three such loops
  together; a refusal then means that the last source was exhausted.
* `SignaturesSuffice`.  Every key the ledger asks for is among those that
  `_build_required_vkeys` collects, and so signs if it is given.  For native scripts
  it takes `NamedKeysSatisfy`: keys that satisfy a script without n-of-k still do
  after they are cut down to those that `_dfs` names.
* `FeeCoversSignatures`.  The fake witnesses of different numbers differ as long as a
  number is its eight bits (`FakeWitnessesDiffer`), so they are as many as the keys
  (`FakeWitnessesCounted`).  Every key that is asked for is then counted or on the list
  of those that the builder collects from nowhere (`AskedAreCollected`), which for
  native scripts is `NamedKeysCollected`: a key named outside all n-of-k is named by
  `_dfs`.

**Packing of the change** (also `SigningProofs`).  `PackSafe`, for any tokens, any
order, any sizes and minima and any limit: `PackInv` says that a token is in one
group, in the output that is being filled, in its buffer or still to come
(`TokensApart`, `AllTokensThere`), that what is pending fits and is empty only
where an asset is about to join it (`PendingFits`), and that the outputs follow the
groups (`OutputsInStep`).  `PackingSound` alone is not inductive: the loop
measures the bundle only at the end of a policy, and that no group is empty depends
on where it stands.  `TokensArePacked`, `GroupsWithinLimit`, `AdaIsShared` and
together `PackingIsSound` follow, under the condition that each token fits alone.

**Wallets and messages** (also `SigningProofs`), in the symbolic model of cryptography.
* `HDSafe`: the wallet and the copy `derive_from_path` works on agree with their
  twins, whatever the seed, the indexes and the paths; hence `DerivationsMeet` and
  `WalletKeysPaired`.
* `AcceptedIsSigned`: `verify` accepts only what the key of the named address has
  signed; it holds in every state, since `Verify` derives its verdict from the
  message.
* `SignedIsAccepted`: what `sign` makes is verified.  Its hard half is the exception,
  a wallet last derived publicly: `KeysTold` says that each public step adds a summand
  to the public key and none to the private one, so that the two never pair again
  until a private step; the verdict stays true while the wallet goes on.

**Induction.**  The provers cannot use a theorem of induction, which has an operator as
its parameter.  An invariant of a loop is therefore proved by its least exception: a
set of numbers that is not empty has a least member (`LeastMember` in `SumsProofs`),
and the step before it is no exception.  That a recursive function satisfies its
equation needs some function that does; it is built in the same way, one number or
one nesting at a time (`DfsExists`, `LoopExists`, `AssetsExist`, `CollectedExists`).

**Assumptions** are as weak as the code allows.  Those worth a word:
`FeeWidthAssumption` (the constant part of the fee, 155381 lovelace in the protocol
parameters of `test/pycardano/util.py:21`, is beyond the 65536 from where CBOR takes
five bytes); `BuilderAssumption` (outputs hold amounts, mints no ADA, deposits and
withdrawals are not negative); `SlotTtl` is positive (a `TTLCache` of one second);
`NoneAssumption` (None is no number and no request); UTxOs are finite.  Intervals may
be given at will.  `KeysAssumption` has at most 256 keys: a witness takes some 100
bytes of the 16384 that a transaction may have, and from 257 on fake witnesses would
be merged.  `ScriptsAssumption`: native scripts are finite trees, of any depth.
`SortKeysDiffer`: no two candidates for collateral tie, where Python's sort keeps the
order it found; it makes the model exact, and no proof uses it.  `LedgersAssumption`: an address lists an output once, an output a
token once.  `IdAssumption`: hashes and ids have the sizes their classes assert, an index
is less than 65536, and what another program wrote is a sequence of bytes or a
small CBOR array with the payload of a Byron address.  `SignedIsAccepted` assumes that a verification key is not None.

**Only model-checked**, and why:

* the conversions of nested data (`RoundTrip`, `RewriteStable`, `OneMember`,
  `DatumKept`): recursive operators over data of many shapes, which needs induction
  over that data and for which tlapm has no SMT backend;
* `Terminates` and `BuildEnds`: liveness under fairness;
* `RequestCovered`, `ReturnedBalanced`, `FeeIsMinimum`, `ReadsAreCurrent`: violated, see below.

## 7. Where code and documentation part

Shown by a run (see `PROJECT.json`): the shared `existing_amount`, the donation, the
scripts on selected potential inputs, and the shared epoch test.  Met while modelling, kept in the model as the code
has it, and visible in the properties' conditions:

* the limit `max_input_count` reaching 0 in the recursive call means no limit, and
  `_improve` tests it one UTxO late;
* the additional UTxOs for change may raise the minimum of that change
  (`MissingChangeArrives` is about the minimum as it was);
* a generator's index equal to the length of the list raises an IndexError
  (`DrawCrashes`);
* repeated inputs, equal explicit deposits and refunds are not counted in the
  change (`Uncounted`);
* after a failed selector, assets no input holds can be counted (`rescued`);
* inputs that cover the request exactly select nothing for the change, and
  `build` raises;
* potential inputs are not checked against inputs (`OnlyOfferedSpent`);
* a transaction that is too large with its change leaves that change in the builder's
  outputs, and a new build refuses it before anything else, since it then starts from
  these (`FailureKeepsOutputs`);
* the script of an input that was added twice is paid for twice (`Referenced`);
* the returned body shares the list of outputs (`shared`);
* a failed estimation is not repeated, and the next build returns units of zero
  (`lost`); a rebuild keeps the units of the first build (`fresh`); if the copy
  selects more than the builder its pointers differ (`strayed`);
* one redeemer object for two inputs gets one index; an input added twice moves the
  indexes behind it (`Shared`, `repeated`); a UTxO that carries a script other than
  its lock is refused even if the right script is given (`Unlocks`);
* a failed second request loses a refresh (`broken`), and an `ApiError` leaves
  `evaluate_tx_cbor` and its file (`FilesLeftByEscapes`);
* no keys are collected from n-of-k scripts, from native scripts given with an input
  or a policy, from `UnregDRepCertificate`, `UpdateDRepCertificate`, the committee's
  certificates and the owners of a pool: their signatures are not estimated, and
  `build_and_sign` leaves them out unless `force_skeys` is given, and then the fee is
  short by them (`WitnessesSuffice`; `Uncollected` in `FeeCoversWitnesses`); `witness_override` of 0 counts as none; fake witnesses are
  distinct up to 256;
* a build that fails for its collateral leaves it in the builder, and the next one
  takes no more; a return that is too small does not ask the next source; a build
  that needs no return keeps the one of the last (`StaleReturn`);
* one token larger than `max_val_size` makes the loop give up the rest of the change
  (`FitAlone`); without `respect_min_utxo` the last output of the change may hold a
  negative amount; the step "remove empty groups" of the comment is not there, and
  not needed (`GroupsFit`);
* forks reuse slots, and answers cached under one come back; in v6 a read of the
  genesis parameters takes the refresh of the protocol parameters; a cardano-cli node
  that is synchronised never refreshes them (`ParamsBounded`);
* a submission whose answer is lost is reported as failed (`OutcomeIsTrue`);
* not read back as written (`Loses`): certificates in a set (left as primitives),
  `NewConstitution` (its tuple is refused), versions of `HardForkInitiation`, cost
  models of a parameter update, votes of a cold credential, metadata of the Mary era
  without scripts, a transaction whose `valid` is None, a datum that is falsy or
  stands beside its hash, assets of 0, `post_alonzo`;
* a union catches `DeserializeException` only; `RegDRepCert` is no member of
  `Certificate`; keys of dictionaries are sorted by length first;
* `RawPlutusData` makes definite lists indefinite, but not inside an indefinite one;
  from JSON, constructors inside lists or below one of 128 or more are written with
  definite fields; chunks of long byte strings are joined (`Survives`); JSON does not
  restore members of a union that are no classes; tags 1401 to 1535 are read, as
  constructors 128 to 262, and never written;
* the prefix of a text is ignored when addresses and CIP-129 ids are decoded; the id
  of a governance action that begins with 0x40, 0x41, 0x50 or 0x51 may be read as an
  address with a pointer; a CIP-105 text tells no roles (`NotMistaken`); padded and
  unfinished pointers are normalised; a Byron payload that is not canonical is not
  readable after it was written again;
* public derivation keeps the private key of the parent, so that the keys no longer
  pair (`KeysPaired`), a later private derivation leaves the path, and a key made
  from the wallet signs what does not verify (`SignedVerifies`); an index of 2^31 or
  more is hardened without the mark; `derive_from_path` is relative;
* `verify` hashes a key of 64 bytes in the header whole, so that it never matches the
  address of its first 32; with such a key an invalid signature raises; the staking part of a
  base address is not compared (`VerifiedMeansSigned`).

## 8. What is not modelled, and why

* The validity interval and ttl that the first build of a script transaction sets:
  it would need slots in `TxBuilder`, which has no other use of time.
* Prices of execution units, which are part of the fee of a transaction that runs
  scripts: the units are those of `ScriptWitnesses`, their price is arithmetic with
  fractions of the protocol parameters, and they stay the same in both passes.
* Scripts on reference inputs, which `add_script_input` and the like record as well:
  the fee counts them as it counts those of `AddInput`, and nothing else adds one.
* Paging of Blockfrost's UTxOs, `submit` and `evaluate` of Ogmios: in their client
  libraries, whose answers are passed on.
* Cryptography, the checksums of Base58 and Bech32, COSE, CBOR as bytes, mnemonics:
  external, and exact where they are used.
* Key files, size limits of metadata, JSON of native scripts, `id_map`, the
  fingerprint of CIP-14: single conversions without alternatives.
* Exceptions, logging, examples.

Within the modelled parts: potential inputs are a set although the code has a list
(their order only orders the pool, which the selectors sort or draw from at random);
the change is one output in `TxBuilder` (`TokenPacking` splits it); minimum ADA and
size are linear there; the clock of a Blockfrost client is not ahead of the server's;
the flags of an ordered set that choose its CBOR form are in `Serialization`, not in
`OrderedSet`, as they change no membership; byte strings of `Serialization` are a
size and an identity.
