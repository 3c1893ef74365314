------------------------------- MODULE Signing -------------------------------
(***************************************************************************)
(* build_and_sign of TransactionBuilder: which keys a transaction is taken *)
(* to need, how many signatures the fee pays for, and which of the given   *)
(* keys sign.  Coin selection takes any of the potential inputs; change    *)
(* and execution units, which other modules model, may raise.              *)
(***************************************************************************)
EXTENDS Collateral

CONSTANTS
  Keys,
  NativeScripts,  \* [op, key, n, subs], closed under subs
  MaxNesting,     \* of native scripts
  Items           \* certificates, withdrawals and votes: [kind, key]

VARIABLES
  required,  \* required_signers: None or a set of keys
  items,
  natives,   \* native_scripts
  attached,  \* native scripts given to add_script_input or add_minting_script
  override,  \* witness_override: None or a number
  tx         \* the last transaction returned, or why there is none

signerVars == <<items, natives, attached, override>>
vars == <<sourceVars, collateralVars, signerVars, required, tx>>

NoTx == [status |-> "none"]

\* A transaction of 16384 bytes (max_tx_size) has no room for 256 witnesses.
ASSUME KeysAssumption ==
  /\ IsFiniteSet(Keys) /\ Cardinality(Keys) <= 256
  /\ \A u \in UTxOs : u.owner \in Keys \cup {Script}
  /\ \A i \in Items : i.key \in Keys \cup {Script}

\* A native script is a finite tree.
ASSUME ScriptsAssumption ==
  /\ MaxNesting \in Nat
  /\ \A s \in NativeScripts :
       /\ s.subs \subseteq NativeScripts
       /\ s.op = "pubkey" => s.key \in Keys
       /\ s.subs # {} => s.op \in {"all", "any", "nofk"}
  /\ \E nesting \in [NativeScripts -> 0..MaxNesting] :
       \A s \in NativeScripts : \A t \in s.subs : nesting[t] < nesting[s]

-----------------------------------------------------------------------------
(* The keys *)

\* Mutant: the collateral's keys are forgotten.
InputVkeyHashesOnly(ins, coll) == {u.owner : u \in ins} \ {Script}

InputVkeyHashes(ins, coll) == {u.owner : u \in ins \cup coll} \ {Script}

RequiredSignerVkeyHashes(req) == IF req = None THEN {} ELSE req

\* The certificates whose keys _certificate_vkey_hashes collects; those whose
\* keys the ledger asks for all the same, the owners of a pool among them.
CollectedCertificates ==
  {"StakeRegistration", "StakeDeregistration", "StakeDelegation",
   "StakeRegistrationConway", "StakeDeregistrationConway", "VoteDelegation",
   "StakeAndVoteDelegation", "StakeRegistrationAndDelegation",
   "StakeRegistrationAndVoteDelegation", "StakeRegistrationAndDelegationAndVoteDelegation",
   "RegDRepCert", "PoolRegistration", "PoolRetirement"}
OtherCertificates ==
  {"UnregDRepCertificate", "UpdateDRepCertificate", "AuthCommitteeHotCertificate",
   "ResignCommitteeColdCertificate", "pool_owner"}

KeysOfKinds(kinds) == {i.key : i \in {j \in items : j.kind \in kinds}} \ {Script}

CertificateVkeyHashes == KeysOfKinds(CollectedCertificates)
WithdrawalVkeyHashes == KeysOfKinds({"withdrawal"})
VoteVkeyHashes == KeysOfKinds({"vote"})

\* _dfs of _native_scripts_vkey_hashes, which does not enter n-of-k scripts.
Dfs[s \in NativeScripts] ==
  IF s.op = "pubkey" THEN {s.key}
  ELSE IF s.op \in {"all", "any"} THEN UNION {Dfs[t] : t \in s.subs} ELSE {}

\* Only of native_scripts: scripts given to add_script_input are left out.
NativeScriptsVkeyHashes == UNION {Dfs[s] : s \in natives}

BuildRequiredVkeys(ins, coll, req) ==
  InputVkeyHashes(ins, coll) \cup RequiredSignerVkeyHashes(req) \cup NativeScriptsVkeyHashes
    \cup CertificateVkeyHashes \cup WithdrawalVkeyHashes \cup VoteVkeyHashes

-----------------------------------------------------------------------------
(* The fake witnesses that the fee is estimated with *)

\* `witness_override or len(...)`: an override of 0 is none.
WitnessCount(vkeys) == IF override \in {None, 0} THEN Cardinality(vkeys) ELSE override

Bits(i) == {k \in 0..7 : (i \div 2^k) % 2 = 1}

\* Mutant: the witnesses differ in their keys only.
FakeWitnessKeyOnly(i) == <<Bits(i) \cap {0, 3, 4, 5, 6, 7}>>

\* The last bytes of the key, f9, and of the two halves of the signature, 5d and
\* 03, each masked with the number of the witness.
FakeWitness(i) ==
  <<Bits(i) \cap {0, 3, 4, 5, 6, 7}, Bits(i) \cap {0, 2, 3, 4, 6}, Bits(i) \cap {0, 1}>>

\* The witnesses go into an ordered set.
FakeVkeyWitnesses(count) == {FakeWitness(i) : i \in 0..count - 1}

-----------------------------------------------------------------------------
(* Editing the builder *)

\* What was returned is of the builder as it was.
Edited == tx' = NoTx /\ UNCHANGED <<collateralReturn, totalCollateral>>

AddInput(u) ==
  /\ inputs' = inputs \cup {u}
  /\ Edited /\ UNCHANGED <<potential, wallet, refs, plutus, collaterals, signerVars, required>>

AddPotential(u) ==
  /\ potential' = potential \cup {u}
  /\ Edited /\ UNCHANGED <<inputs, wallet, refs, plutus, collaterals, signerVars, required>>

\* The address receives a UTxO.
Fund(u) ==
  /\ wallet' = wallet \cup {u}
  /\ Edited /\ UNCHANGED <<inputs, potential, refs, plutus, collaterals, signerVars, required>>

SetCollaterals(S) ==
  /\ collaterals' = S
  /\ Edited /\ UNCHANGED <<sourceVars, signerVars, required>>

AddPlutusScript ==
  /\ plutus' = TRUE
  /\ Edited /\ UNCHANGED <<inputs, potential, wallet, refs, collaterals, signerVars, required>>

AddReferenceScript ==
  /\ refs' = refs + 1
  /\ Edited /\ UNCHANGED <<inputs, potential, wallet, plutus, collaterals, signerVars, required>>

AddItem(i) ==
  /\ items' = items \cup {i}
  /\ Edited /\ UNCHANGED <<sourceVars, collaterals, natives, attached, override, required>>

ListNativeScript(s) ==
  /\ natives' = natives \cup {s}
  /\ Edited /\ UNCHANGED <<sourceVars, collaterals, items, attached, override, required>>

AttachNativeScript(s) ==
  /\ attached' = attached \cup {s}
  /\ Edited /\ UNCHANGED <<sourceVars, collaterals, items, natives, override, required>>

SetRequiredSigners(S) ==
  /\ required' = S
  /\ Edited /\ UNCHANGED <<sourceVars, collaterals, signerVars>>

SetWitnessOverride(n) ==
  /\ override' = n
  /\ Edited /\ UNCHANGED <<sourceVars, collaterals, items, natives, attached, required>>

-----------------------------------------------------------------------------
(* Building *)

\* scripts and all_scripts are not empty.
HasScripts == natives \cup attached # {} \/ plutus
IsSmart == HasScripts \/ refs > 0

\* required_signers when build is called; auto is auto_required_signers.
SignersGiven(keys, auto) ==
  IF auto = "True" /\ HasScripts /\ required \in {None, {}} THEN keys ELSE required

\* required_signers when build has selected its inputs.
SignersSet(keys, auto, ins) ==
  LET given == SignersGiven(keys, auto) IN
  IF IsSmart /\ auto # "False" /\ given = None
  THEN InputVkeyHashes(ins, collaterals) ELSE given

Raised(reason, before) == [status |-> "raised", reason |-> reason, before |-> before]

\* An exception before the required signers are set.
SelectionRaises(keys, auto) ==
  /\ required' = SignersGiven(keys, auto)
  /\ tx' = Raised("selection", collaterals)
  /\ UNCHANGED <<sourceVars, collateralVars, signerVars>>

KeysThatSign(keys, force, vkeys) == IF force THEN keys ELSE keys \cap vkeys

BuildAndSign(keys, force, auto, address, chosen) ==
  LET ins == inputs \cup chosen
      vkeys == BuildRequiredVkeys(ins, collaterals', required')
  IN
  /\ chosen \subseteq potential
  /\ inputs' = ins
  /\ required' = SignersSet(keys, auto, ins)
  /\ SetCollateralReturn(address, ins)
  /\ IF CollateralRaises(address, collaterals')
     THEN tx' = Raised("collateral", collaterals)
     ELSE \/ tx' = Raised("later", collaterals)
          \/ tx' = [status |-> "signed", given |-> keys, forced |-> force, address |-> address,
                    witnesses |-> KeysThatSign(keys, force, vkeys),
                    counted |-> Cardinality(FakeVkeyWitnesses(WitnessCount(vkeys))),
                    before |-> <<collaterals, collateralReturn>>]
  /\ UNCHANGED <<potential, wallet, refs, plutus, signerVars>>

SigningInit ==
  /\ inputs = {} /\ potential = {} /\ wallet = {} /\ refs = 0 /\ plutus = FALSE
  /\ collaterals = {} /\ collateralReturn = None /\ totalCollateral = None
  /\ required = None /\ items = {} /\ natives = {} /\ attached = {} /\ override = None
  /\ tx = NoTx

Edit ==
  \/ \E u \in UTxOs : AddInput(u) \/ AddPotential(u) \/ Fund(u)
  \/ \E S \in SUBSET UTxOs : SetCollaterals(S)
  \/ AddPlutusScript
  \/ AddReferenceScript
  \/ \E i \in Items : AddItem(i)
  \/ \E s \in NativeScripts : ListNativeScript(s) \/ AttachNativeScript(s)
  \/ \E S \in SUBSET Keys : SetRequiredSigners(S)
  \/ \E n \in Nat : SetWitnessOverride(n)

Build ==
  \E keys \in SUBSET Keys, auto \in {"None", "True", "False"} :
    \/ SelectionRaises(keys, auto)
    \/ \E force, address \in BOOLEAN, chosen \in SUBSET potential :
         BuildAndSign(keys, force, auto, address, chosen)

SigningSpec == SigningInit /\ [][Edit \/ Build]_vars

-----------------------------------------------------------------------------
(* Properties *)

\* The keys the ledger asks for on account of these inputs, signers and kinds of
\* items (external).
Needed(kinds) ==
  ({u.owner : u \in inputs \cup collaterals} \ {Script})
    \cup RequiredSignerVkeyHashes(required) \cup KeysOfKinds(kinds)

Counted == CollectedCertificates \cup {"withdrawal", "vote"}

\* The ledger's reading of a native script: the sets of keys that satisfy it, when
\* it is valid at the time (external).
SatisfiedBy[s \in NativeScripts] ==
  {W \in SUBSET Keys :
     /\ s.op = "pubkey" => s.key \in W
     /\ s.op = "all" => \A t \in s.subs : W \in SatisfiedBy[t]
     /\ s.op = "any" => \E t \in s.subs : W \in SatisfiedBy[t]
     /\ s.op = "nofk" => Cardinality({t \in s.subs : W \in SatisfiedBy[t]}) >= s.n}

\* The scripts within a script, itself included.
Within[s \in NativeScripts] == {s} \cup UNION {Within[t] : t \in s.subs}
WithoutNofK(script) == \A s \in Within[script] : s.op # "nofk"

\* A given key that the ledger asks for signs, and the keys that sign satisfy every
\* listed native script that all given keys would satisfy (txbuilder.py:880-1098,
\* 1725-1745).  What is left out are the certificates _certificate_vkey_hashes does
\* not know, n-of-k scripts and scripts that were not listed in native_scripts:
\* their keys are taken to be superfluous, and are not used.
WitnessesSuffice ==
  tx.status = "signed" =>
    /\ Needed(Counted) \cap tx.given \subseteq tx.witnesses
    /\ \A s \in natives :
         WithoutNofK(s) /\ tx.given \in SatisfiedBy[s] => tx.witnesses \in SatisfiedBy[s]

\* The keys that scripts name, at any depth.
Named(scripts) ==
  {t.key : t \in {r \in UNION {Within[s] : s \in scripts} : r.op = "pubkey"}}
NofKWithin(scripts) == {r \in UNION {Within[s] : s \in scripts} : r.op = "nofk"}

\* Every key whose signature the ledger may ask for, on any account.
Asked == Needed(Counted \cup OtherCertificates) \cup Named(natives \cup attached)

\* The keys that build does not count, unless they are needed on another account:
\* those of UnregDRep, UpdateDRep and committee certificates and of the owners of a
\* pool, those in an n-of-k script, and those in a native script that was given to
\* add_script_input or add_minting_script and is not in native_scripts.
Uncollected ==
  (KeysOfKinds(OtherCertificates) \cup Named(attached) \cup Named(NofKWithin(natives)))
    \ Needed(Counted)

\* The fee is short of the signatures that the ledger may ask for, and of those that the
\* transaction carries, at most by the Uncollected ones and by keys nobody asks for that
\* are forced to sign, unless the caller overrides the number of witnesses: the inputs
\* and collaterals that build itself adds are counted, and fake witnesses never merge
\* (txbuilder.py:880-1137).
FeeCoversWitnesses ==
  tx.status = "signed" /\ override \in {None, 0} =>
    /\ Cardinality(Asked) <= tx.counted + Cardinality(Uncollected)
    /\ Cardinality(tx.witnesses) <=
         tx.counted + IF tx.forced THEN Cardinality(tx.witnesses \ (Asked \ Uncollected)) ELSE 0

\* The return of an earlier build, which this one found unnecessary and left.
StaleReturn ==
  collateralReturn = tx.before[2] /\ ~ShouldAddCollateralReturn(ReturnOf(collaterals))

\* A transaction that needs collateral has enough of it, and what its inputs
\* hold beyond the amount is returned, every token included, or is below the
\* threshold.  The exception is StaleReturn.  build refuses for want of collateral
\* only if everything it may take does not suffice; for a return that is too small
\* only if it has taken all inputs it may.  The exception are collaterals it finds
\* in the builder, which the user or a build that failed has left
\* (txbuilder.py:1507-1612).
CollateralAccounted ==
  /\ tx.status = "signed" /\ NeedsCollateral(tx.address) =>
       /\ Coin(collaterals) >= CollateralAmount
       /\ \/ StaleReturn
          \/ /\ collateralReturn # None
             /\ collateralReturn.coin + totalCollateral = Coin(collaterals)
             /\ collateralReturn.tokens = NumberOfTokens(collaterals)
             /\ \/ collateralReturn.coin >= MinLovelaceOf(collateralReturn)
                \/ collateralReturn.coin = 0 /\ MinTokens <= OneAda
  /\ tx.status = "raised" /\ tx.reason = "collateral" /\ tx.before = {} =>
       /\ Coin(collaterals) < CollateralAmount =>
            Coin({u \in inputs \cup potential \cup wallet : Eligible(u)}) < CollateralAmount
       /\ {u \in inputs : Eligible(u)} \subseteq collaterals

=============================================================================
