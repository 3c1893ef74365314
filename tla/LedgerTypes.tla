----------------------------- MODULE LedgerTypes -----------------------------
(***************************************************************************)
(* The classes of the ledger's types, as the dataclasses declare them: the *)
(* table that drives module Serialization.  The order of fields, their     *)
(* keys and codes, what may be left out and the declared types are those   *)
(* of the code.                                                            *)
(***************************************************************************)
EXTENDS Naturals, Sequences, TLC

\* Type hints
AnyType == [any |-> TRUE]
NoneType == [prim |-> "nil"]
Integer == [prim |-> "int"]
Bytes == [prim |-> "bytes"]
Str == [prim |-> "str"]
Bool == [prim |-> "bool"]
Fraction == [prim |-> "frac"]
Cls(name) == [class |-> name]
List(t) == [list |-> t]
Hook(name) == [hook |-> name]
Union(ts) == [union |-> ts]
Optional(t) == [union |-> (IF "union" \in DOMAIN t THEN t.union ELSE <<t>>) \o <<NoneType>>]
OrderedSet(t) == [set |-> t, nonEmpty |-> FALSE]
NonEmptyOrderedSet(t) == [set |-> t, nonEmpty |-> TRUE]
ListOrSet(t) == Union(<<List(t), OrderedSet(t)>>)
ListOrNonEmpty(t) == Optional(Union(<<List(t), NonEmptyOrderedSet(t)>>))

\* dataclasses.field: a default, and metadata "optional" and "key".
Field(t) == [type |-> t, optional |-> FALSE, default |-> <<>>]
Default(t, v) == [type |-> t, optional |-> FALSE, default |-> <<v>>]
NoneField(t) == Default(t, [nil |-> TRUE])
Omitted(t, v) == [type |-> t, optional |-> TRUE, default |-> <<v>>]
OptionalField(t) == Omitted(t, [nil |-> TRUE])
Key(k, f) == f @@ ("key" :> k)
OptionalKey(k, t) == Key(k, OptionalField(Optional(t)))

HashClass(size) == [shape |-> "hash", sizes |-> {size}]
ArrayClass(fields) == [shape |-> "array", fields |-> fields]
DirectClass(fields) == [shape |-> "direct", fields |-> fields]
CodedClass(code, fields) == [shape |-> "coded", code |-> code, fields |-> fields]
MapClass(fields) == [shape |-> "map", fields |-> fields]
VariantClass(variants) == [shape |-> "variant", variants |-> variants, unknown |-> "refused"]
DictClass(k, v) == [shape |-> "dict", key |-> k, value |-> v, normal |-> FALSE, hashable |-> TRUE]

-----------------------------------------------------------------------------
\* ConstrainedBytes and the types of scripts and keys.
Hashes ==
  [n \in {"VerificationKeyHash", "ScriptHash", "PolicyHash", "PoolKeyHash"} |-> HashClass(28)]
  @@ [n \in {"TransactionId", "DatumHash", "AuxiliaryDataHash", "ScriptDataHash", "VrfKeyHash",
             "PoolMetadataHash", "AnchorDataHash"} |-> HashClass(32)]
  @@ "RewardAccountHash" :> HashClass(29)
  @@ "AssetName" :> [shape |-> "hash", sizes |-> 0..32]
  @@ "Address" :> [shape |-> "hash", sizes |-> {29, 57}]

PlutusScripts ==
  [n \in {"PlutusV1Script", "PlutusV2Script", "PlutusV3Script"} |-> [shape |-> "raw"]]
VerificationKeys == "VerificationKey" :> [shape |-> "raw"]
Enums ==
  "Network" :> [shape |-> "enum", among |-> {0, 1}]
  @@ "RedeemerTag" :> [shape |-> "enum", among |-> 0..5]

KeyOrScript ==
  (0 :> <<Field(Cls("VerificationKeyHash"))>>) @@ (1 :> <<Field(Cls("ScriptHash"))>>)

\* StakeCredential and its subclasses; Anchor.
Credentials ==
  [n \in {"StakeCredential", "DRepCredential", "CommitteeColdCredential"} |-> VariantClass(KeyOrScript)]
  @@ "Anchor" :> ArrayClass(<<Field(Str), Field(Cls("AnchorDataHash"))>>)

DReps == "DRep" :> VariantClass(KeyOrScript @@ [k \in {2, 3} |-> <<>>])

-----------------------------------------------------------------------------
(* Certificates *)

Credential == Field(Cls("StakeCredential"))
Pool == Field(Cls("PoolKeyHash"))
Rep == Field(Cls("DRep"))
Amount == Field(Integer)

\* Mutant: a deregistration has the code of a registration.
StakeCertificatesSameCode ==
  [n \in {"StakeRegistration", "StakeDeregistration"} |-> CodedClass(0, <<Credential>>)]
  @@ "StakeDelegation" :> CodedClass(2, <<Credential, Pool>>)
  @@ "PoolRegistration" :> [shape |-> "pool", code |-> 3, fields |-> <<Field(Cls("PoolParams"))>>]
  @@ "PoolRetirement" :> CodedClass(4, <<Pool, Field(Integer)>>)
  @@ [n \in {"StakeRegistrationConway", "StakeDeregistrationConway"} |-> CodedClass(7, <<Credential, Amount>>)]

StakeCertificates ==
  "StakeRegistration" :> CodedClass(0, <<Credential>>)
  @@ "StakeDeregistration" :> CodedClass(1, <<Credential>>)
  @@ "StakeDelegation" :> CodedClass(2, <<Credential, Pool>>)
  @@ "PoolRegistration" :> [shape |-> "pool", code |-> 3, fields |-> <<Field(Cls("PoolParams"))>>]
  @@ "PoolRetirement" :> CodedClass(4, <<Pool, Field(Integer)>>)
  @@ "StakeRegistrationConway" :> CodedClass(7, <<Credential, Amount>>)
  @@ "StakeDeregistrationConway" :> CodedClass(8, <<Credential, Amount>>)

VoteCertificates ==
  "VoteDelegation" :> CodedClass(9, <<Credential, Rep>>)
  @@ "StakeAndVoteDelegation" :> CodedClass(10, <<Credential, Pool, Rep>>)
  @@ "StakeRegistrationAndDelegation" :> CodedClass(11, <<Credential, Pool, Amount>>)
  @@ "StakeRegistrationAndVoteDelegation" :> CodedClass(12, <<Credential, Rep, Amount>>)
  @@ "StakeRegistrationAndDelegationAndVoteDelegation" :> CodedClass(13, <<Credential, Pool, Rep, Amount>>)
  @@ "AuthCommitteeHotCertificate" :> CodedClass(14, <<Credential, Credential>>)
  @@ "ResignCommitteeColdCertificate" :> CodedClass(15, <<Credential, Field(Optional(Cls("Anchor")))>>)

DRepCertificates ==
  LET drep == Field(Cls("DRepCredential"))
      anchor == Optional(Cls("Anchor"))
  IN  "RegDRepCert" :> CodedClass(16, <<drep, Amount, NoneField(anchor)>>)
      @@ "UnregDRepCertificate" :> CodedClass(17, <<drep, Amount>>)
      @@ "UpdateDRepCertificate" :> CodedClass(18, <<drep, Field(anchor)>>)

\* The union, in its order; RegDRepCert is not in it.
Certificate ==
  Union(<<Cls("StakeRegistration"), Cls("StakeDeregistration"), Cls("StakeDelegation"),
          Cls("PoolRegistration"), Cls("PoolRetirement"), Cls("StakeRegistrationConway"),
          Cls("StakeDeregistrationConway"), Cls("VoteDelegation"), Cls("StakeAndVoteDelegation"),
          Cls("StakeRegistrationAndDelegation"), Cls("StakeRegistrationAndVoteDelegation"),
          Cls("StakeRegistrationAndDelegationAndVoteDelegation"), Cls("AuthCommitteeHotCertificate"),
          Cls("ResignCommitteeColdCertificate"), Cls("UnregDRepCertificate"),
          Cls("UpdateDRepCertificate")>>)

\* The relays hand the elements on as they are, a SingleHostAddr with its addresses
\* converted.
Relays ==
  "SingleHostAddr" :> VariantClass(0 :> <<Field(AnyType), Field([host |-> 4]), Field([host |-> 16])>>)
  @@ "SingleHostName" :> VariantClass(1 :> <<Field(AnyType), Field(AnyType)>>)
  @@ "MultiHostName" :> VariantClass(2 :> <<Field(AnyType)>>)

Relay == Union(<<Cls("SingleHostAddr"), Cls("SingleHostName"), Cls("MultiHostName")>>)

PoolTypes ==
  "PoolId" :> [shape |-> "text", texts |-> {"pool1"}]
  @@ "PoolMetadata" :> ArrayClass(<<Field(Str), Field(Cls("PoolMetadataHash"))>>)
  @@ "PoolParams" :> ArrayClass(<<Pool, Field(Cls("VrfKeyHash")), Field(Integer), Field(Integer),
       Field(Fraction), Field(Cls("RewardAccountHash")), Field(ListOrSet(Cls("VerificationKeyHash"))),
       NoneField(Optional(List(Relay))), NoneField(Optional(Cls("PoolMetadata"))),
       OptionalField(Optional(Cls("PoolId")))>>)

-----------------------------------------------------------------------------
(* Governance *)

GovActionIds ==
  "GovActionId" :> DirectClass(<<Field(Cls("TransactionId")), Field([among |-> 0..65535])>>)

Thresholds ==
  "ExUnitPrices" :> ArrayClass([i \in 1..2 |-> Field(Fraction)])
  @@ "PoolVotingThresholds" :> ArrayClass([i \in 1..5 |-> Field(Fraction)])
  @@ "DRepVotingThresholds" :> ArrayClass([i \in 1..10 |-> Field(Fraction)])

\* The keys of a protocol parameter update and their types; cost_models is
\* declared as a bare Dict.
ParamFields ==
  [k \in 0..8 |-> Integer] @@ [k \in 9..11 |-> Fraction] @@ [k \in 16..17 |-> Integer]
  @@ 18 :> [other |-> "Dict"] @@ 19 :> Cls("ExUnitPrices") @@ [k \in 20..21 |-> Cls("ExecutionUnits")]
  @@ [k \in 22..24 |-> Integer] @@ 25 :> Cls("PoolVotingThresholds") @@ 26 :> Cls("DRepVotingThresholds")
  @@ [k \in 27..32 |-> Integer] @@ 33 :> Fraction

ParamKeys == [i \in 1..30 |-> IF i <= 12 THEN i - 1 ELSE i + 3]

ProtocolParamUpdate ==
  "ProtocolParamUpdate" :>
    MapClass([i \in 1..30 |-> OptionalKey(ParamKeys[i], ParamFields[ParamKeys[i]])])

\* The version of a hard fork is a pair, declared as a Fraction, that __post_init__
\* unpacks; a constitution is a Tuple; CommitteeColdCredential has lost its __hash__.
GovActions ==
  LET previous == Field(Optional(Cls("GovActionId")))
      policy == Field(Optional(Cls("PolicyHash")))
      cold == Cls("CommitteeColdCredential")
  IN  "ParameterChangeAction" :> CodedClass(0, <<previous, Field(Cls("ProtocolParamUpdate")), policy>>)
      @@ "HardForkInitiationAction" :> CodedClass(1, <<previous, Field([other |-> "Version"])>>)
      @@ "TreasuryWithdrawal" :> DictClass(Bytes, Integer)
      @@ "TreasuryWithdrawalsAction" :> CodedClass(2, <<Field(Cls("TreasuryWithdrawal")), policy>>)
      @@ "NoConfidence" :> CodedClass(3, <<previous>>)
      @@ "CommitteeColdCredentialEpochMap" :> [DictClass(cold, Integer) EXCEPT !.hashable = FALSE]
      @@ "UpdateCommittee" :> CodedClass(4, <<previous, Field(OrderedSet(cold)),
           Field(Cls("CommitteeColdCredentialEpochMap")), Field(Fraction)>>)
      @@ "NewConstitution" :> CodedClass(5, <<previous, Field([other |-> "Tuple"])>>)
      @@ "InfoAction" :> CodedClass(6, <<>>)

GovAction ==
  Union(<<Cls("ParameterChangeAction"), Cls("HardForkInitiationAction"), Cls("TreasuryWithdrawalsAction"),
          Cls("NoConfidence"), Cls("UpdateCommittee"), Cls("NewConstitution"), Cls("InfoAction")>>)

\* A voter's number tells its role and whether it is a key or a script.
Voting ==
  "VotingProcedure" :> DirectClass(<<Field([among |-> 0..2]), Field(Optional(Cls("Anchor")))>>)
  @@ "Voter" :> VariantClass([k \in 0..4 |-> KeyOrScript[k % 2]])
  @@ "GovActionIdToVotingProcedure" :> DictClass(Cls("GovActionId"), Cls("VotingProcedure"))
  @@ "VotingProcedures" :> DictClass(Cls("Voter"), Cls("GovActionIdToVotingProcedure"))
  @@ "ProposalProcedure" :>
       ArrayClass(<<Field(Integer), Field(Bytes), Field(GovAction), Field(Cls("Anchor"))>>)

-----------------------------------------------------------------------------
(* Transactions *)

ValueTypes ==
  "Asset" :> [DictClass(Cls("AssetName"), Integer) EXCEPT !.normal = TRUE]
  @@ "MultiAsset" :> [DictClass(Cls("ScriptHash"), Cls("Asset")) EXCEPT !.normal = TRUE]
  @@ "Value" :> [shape |-> "value",
       fields |-> <<Default(Integer, [int |-> 0]),
                    Default(Cls("MultiAsset"), [obj |-> "MultiAsset", fields |-> <<>>])>>]

NativeScripts ==
  LET scripts == Field(Hook("NativeScript"))
  IN  "NativeScript" :> [shape |-> "script", unknown |-> "refused", variants |->
        (0 :> <<Field(Cls("VerificationKeyHash"))>>) @@ [k \in {1, 2} |-> <<scripts>>]
        @@ 3 :> <<Field(Integer), scripts>> @@ [k \in {4, 5} |-> <<Field(Integer)>>]]

\* Datum options and script references: the content of the tag is its encoding.
OutputTypes ==
  LET amount == Union(<<Integer, Cls("Value")>>)
      script == Optional(Union(<<Cls("NativeScript"), Cls("PlutusV1Script"),
                                 Cls("PlutusV2Script"), Cls("PlutusV3Script")>>))
      VersionOf(k) == <<"NativeScript", "PlutusV1Script", "PlutusV2Script", "PlutusV3Script">>[k + 1]
  IN  "_DatumOption" :> [VariantClass((0 :> <<Field(Cls("DatumHash"))>>) @@ (1 :> <<Field([embedded |-> 24])>>))
                         EXCEPT !.unknown = "last"]
      @@ "_Script" :> [VariantClass([k \in 0..3 |-> <<Field(Cls(VersionOf(k)))>>])
                       EXCEPT !.unknown = "raises"]
      @@ "_ScriptRef" :> [shape |-> "scriptRef"]
      @@ "_TransactionOutputPostAlonzo" :> MapClass(<<Key(0, Field(Cls("Address"))), Key(1, Field(amount)),
           OptionalKey(2, Cls("_DatumOption")), OptionalKey(3, Cls("_ScriptRef"))>>)
      @@ "_TransactionOutputLegacy" :> ArrayClass(<<Field(Cls("Address")), Field(amount),
           OptionalField(Optional(Cls("DatumHash")))>>)
      @@ "TransactionOutput" :> [shape |-> "output", fields |->
           <<Field(Cls("Address")), Field(Cls("Value")), Field(Optional(Cls("DatumHash"))),
             Field(AnyType), Field(script), Field(Optional(Bool))>>]

\* Inputs may be a list or a tagged set; items of the certificates' set are a
\* union and stay lists, proposals are a class and are restored.
TransactionBody ==
  LET input == Cls("TransactionInput")
  IN  "TransactionInput" :> ArrayClass(<<Field(Cls("TransactionId")), Field(Integer)>>)
      @@ "Withdrawals" :> DictClass(Bytes, Integer)
      @@ "TransactionBody" :> MapClass(<<
           Key(0, Default(ListOrSet(input), [set |-> <<>>, tagged |-> TRUE, indef |-> FALSE])),
           Key(1, Default(Hook("TransactionOutput"), [list |-> <<>>])),
           Key(2, Default(Integer, [int |-> 0])), OptionalKey(3, Integer),
           OptionalKey(4, Union(<<List(Certificate), NonEmptyOrderedSet(Certificate)>>)),
           OptionalKey(5, Cls("Withdrawals")), Key(6, OptionalField(AnyType)),
           OptionalKey(7, Cls("AuxiliaryDataHash")), OptionalKey(8, Integer), OptionalKey(9, Cls("MultiAsset")),
           OptionalKey(11, Cls("ScriptDataHash")), Key(13, OptionalField(ListOrNonEmpty(input))),
           Key(14, OptionalField(ListOrNonEmpty(Cls("VerificationKeyHash")))), OptionalKey(15, Cls("Network")),
           OptionalKey(16, Cls("TransactionOutput")), OptionalKey(17, Integer),
           Key(18, OptionalField(ListOrNonEmpty(input))), OptionalKey(19, Cls("VotingProcedures")),
           OptionalKey(20, NonEmptyOrderedSet(Cls("ProposalProcedure"))), OptionalKey(21, Integer),
           OptionalKey(22, Integer)>>)

\* "valid" may be left out although auxiliary_data, written as nil, follows it.
Transaction ==
  "Transaction" :> ArrayClass(<<Field(Cls("TransactionBody")), Field(Cls("TransactionWitnessSet")),
    Omitted(Optional(Bool), [bool |-> TRUE]), NoneField(Optional(Cls("AuxiliaryData")))>>)

Redeemers ==
  "ExecutionUnits" :> ArrayClass(<<Field(Integer), Field(Integer)>>)
  @@ "Redeemer" :> DirectClass(<<Field(Cls("RedeemerTag")), Field(AnyType), Field(AnyType),
                                 Field(Optional(Cls("ExecutionUnits")))>>)
  @@ "RedeemerKey" :> DirectClass(<<Field(Cls("RedeemerTag")), Field(AnyType)>>)
  @@ "RedeemerValue" :> DirectClass(<<Field(AnyType), Field(Cls("ExecutionUnits"))>>)
  @@ "RedeemerMap" :> DictClass(Cls("RedeemerKey"), Cls("RedeemerValue"))

\* plutus_data may also be an IndefiniteList, which List(AnyType) takes first.
WitnessTypes ==
  LET Some(k, name) == Key(k, OptionalField(ListOrNonEmpty(Cls(name))))
  IN  "VerificationKeyWitness" :> DirectClass(<<Field(Cls("VerificationKey")), Field(AnyType)>>)
      @@ "TransactionWitnessSet" :> MapClass(<<Some(0, "VerificationKeyWitness"), Some(1, "NativeScript"),
           OptionalKey(2, List(AnyType)), Some(3, "PlutusV1Script"),
           Key(4, OptionalField(ListOrNonEmpty(AnyType))),
           OptionalKey(5, Union(<<List(Cls("Redeemer")), Cls("RedeemerMap")>>)),
           Some(6, "PlutusV2Script"), Some(7, "PlutusV3Script")>>)

\* AuxiliaryData tries the three eras in this order.
AuxiliaryTypes ==
  LET scripts == Hook("NativeScript")
      Scripts(k, n) == OptionalKey(k, List(Cls(n)))
  IN  "Metadata" :> DictClass(Integer, AnyType)
      @@ "ShelleyMarryMetadata" :> ArrayClass(<<Field(Cls("Metadata")), NoneField(scripts)>>)
      @@ "AlonzoMetadata" :> [shape |-> "tagged", tag |-> 259, fields |->
           <<OptionalKey(0, Cls("Metadata")), Key(1, OptionalField(scripts)),
             Scripts(2, "PlutusV1Script"), Scripts(3, "PlutusV2Script"), Scripts(4, "PlutusV3Script")>>]
      @@ "AuxiliaryData" :> [shape |-> "eras", eras |->
           <<Cls("AlonzoMetadata"), Cls("ShelleyMarryMetadata"), Cls("Metadata")>>]

LedgerClasses ==
  Hashes @@ PlutusScripts @@ VerificationKeys @@ Enums @@ Credentials @@ DReps @@ StakeCertificates
  @@ VoteCertificates @@ DRepCertificates @@ Relays @@ PoolTypes @@ GovActionIds @@ Thresholds
  @@ ProtocolParamUpdate @@ GovActions @@ Voting @@ ValueTypes @@ NativeScripts @@ OutputTypes
  @@ TransactionBody @@ Transaction @@ Redeemers @@ WitnessTypes @@ AuxiliaryTypes

=============================================================================
