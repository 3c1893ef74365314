----------------------------- MODULE MCSigning -----------------------------
(***************************************************************************)
(* Collateral, the packing of the change and signing for TLC.  A program   *)
(* is about collateral, and then signs with all keys, or about keys, and   *)
(* then pays from one UTxO, or packs the tokens of one change, or derives  *)
(* keys of a wallet and signs a message.                                   *)
(***************************************************************************)
EXTENDS Signing, TokenPacking, MessageSigning, FiniteSetsExt

CONSTANTS MaxEdits,  \* for each part
          MaxBuilds,
          MaxDepth   \* of keys that are derived further

VARIABLES part, edits, builds

MCMaxEdits == [collateral |-> 4, keys |-> 3, wallet |-> 3]

mcVars == <<part, edits, builds>>

\* Coin in halves of an ADA: with a token, two that suffice alone or not, one at a
\* script, one too small to be collateral.
U(id, owner, coins, tokens, size) ==
  [id |-> id, owner |-> owner, coin |-> coins, tokens |-> tokens, size |-> size]
MCUTxOs == {U(1, "k1", 6, 1, 2), U(2, "k2", 5, 0, 1), U(3, "k1", 8, 0, 1),
            U(4, Script, 9, 0, 3), U(5, "k2", 4, 0, 1)}
Purse == U(3, "k1", 8, 0, 1)

Sig(k) == [op |-> "pubkey", key |-> k, n |-> 0, subs |-> {}]
Of(op, n, subs) == [op |-> op, key |-> Script, n |-> n, subs |-> subs]
Later == Of("after", 0, {})
Nested == Of("any", 0, {Of("all", 0, {Sig("k2"), Later}), Sig("k3")})
TwoOfThree == Of("nofk", 2, {Sig("k1"), Sig("k2"), Sig("k3")})
MCNativeScripts ==
  {Sig("k1"), Sig("k2"), Sig("k3"), Later, Of("all", 0, {Sig("k2"), Later}), Nested, TwoOfThree}

MCItems ==
  [kind : {"StakeDelegation", "PoolRegistration", "withdrawal", "vote", "UnregDRepCertificate"},
   key : {"k2", "k3"}] \cup {[kind |-> "withdrawal", key |-> Script]}

\* The change: tokens of two policies, one token too large for the least limit.

MCToken == {"a1", "a2", "a3", "b1", "b2"}
MCPolicyOf == [t \in MCToken |-> IF t \in {"b1", "b2"} THEN "b" ELSE "a"]
NameSize == [t \in MCToken |-> CASE t = "a2" -> 3 [] t = "b1" -> 2 [] OTHER -> 1]
MCValueSize(S) ==
  1 + 2 * Cardinality({MCPolicyOf[t] : t \in S}) + MapThenSumSet(LAMBDA t : NameSize[t], S)
MCMinCoin(S) == 1 + MCValueSize(S)
MCOrders ==
  {a \o b : a \in {<<>>, <<"a1">>, <<"a2">>, <<"a1", "a2", "a3">>, <<"a3", "a2", "a1">>},
           b \in {<<>>, <<"b1">>, <<"b1", "b2">>, <<"b2", "b1">>}} \ {<<>>}

\* Indexes are hardened from 4 on.
MCIndexes == {-1, 0, 3, 4, NotInt}

MCPaths ==
  LET E(i, h) == [index |-> i, hardened |-> h]
  IN  {<<E(1, TRUE), E(2, FALSE)>>, <<E(1, FALSE), E(2, FALSE)>>, <<E(0, FALSE), E(1, TRUE)>>,
       <<E(NotInt, FALSE)>>}

NoPrograms ==
  /\ inputs = {Purse} /\ potential = {} /\ wallet = {} /\ refs = 0 /\ plutus = FALSE
  /\ collaterals = {} /\ collateralReturn = None /\ totalCollateral = None
  /\ required = None /\ items = {} /\ natives = {} /\ attached = {} /\ override = None
  /\ tx = NoTx

NoChange ==
  /\ order = <<>> /\ left = <<>> /\ groups = <<>> /\ outputs = <<>>
  /\ maxValSize = 0 /\ respect = TRUE /\ total = 0 /\ coin = 0
  /\ policy = "a" /\ buffer = {} /\ bundle = {} /\ old = {} /\ pc = "raised"

NoWallet ==
  /\ hd = Root(CHOOSE s \in Seeds : TRUE)
  /\ work = hd /\ todo = <<>> /\ privately = TRUE /\ raised = FALSE

MCInit ==
  /\ part \in {"collateral", "keys", "change", "wallet"}
  /\ IF part = "wallet" THEN HDInit ELSE NoWallet
  /\ MsgInit
  /\ edits = 0 /\ builds = 0
  /\ IF part = "collateral" THEN SigningInit ELSE NoPrograms
  /\ IF part = "change" THEN PackInit ELSE NoChange

EditCollateral ==
  \/ \E u \in UTxOs : AddInput(u) \/ AddPotential(u) \/ Fund(u)
  \/ \E S \in SUBSET {u \in UTxOs : u.owner # Script} : Cardinality(S) <= 2 /\ SetCollaterals(S)
  \/ ~plutus /\ AddPlutusScript
  \/ refs = 0 /\ AddReferenceScript

EditKeys ==
  \/ \E i \in Items : AddItem(i)
  \/ \E s \in {Nested, TwoOfThree} : ListNativeScript(s) \/ AttachNativeScript(s)
  \/ \E S \in {{}, {"k2"}} : SetRequiredSigners(S)
  \/ \E n \in {0, 1, 4} : SetWitnessOverride(n)

BuildCollateral ==
  \E chosen \in SUBSET potential, address \in BOOLEAN :
    BuildAndSign(Keys, FALSE, "None", address, chosen)

BuildKeys ==
  \E keys \in SUBSET Keys, auto \in {"None", "True", "False"} :
    \/ SelectionRaises(keys, auto)
    \/ \E force \in BOOLEAN : BuildAndSign(keys, force, auto, FALSE, {})

Programs ==
  \/ /\ edits < MaxEdits[part] /\ edits' = edits + 1
     /\ IF part = "collateral" THEN EditCollateral ELSE EditKeys
     /\ UNCHANGED builds
  \/ /\ builds < MaxBuilds /\ builds' = builds + 1
     /\ IF part = "collateral" THEN BuildCollateral ELSE BuildKeys
     /\ UNCHANGED edits

DeriveKeys ==
  /\ message = Nobody
  /\ edits' = IF Idle THEN edits + 1 ELSE edits
  /\ Idle => edits < MaxEdits[part] /\ Len(hd.twin.xprv.left) <= MaxDepth
  /\ HDNext

\* Messages of other programs are the same whatever the wallet.
Messages ==
  /\ Idle
  /\ \/ edits = 0 /\ Receive
     \/ SignMessage \/ Alter
     \/ \E arg \in {"None", "True", "False"} : Verify(arg)

MCNext ==
  \/ part \in {"collateral", "keys"} /\ Programs /\ UNCHANGED <<part, packVars, hdVars, msgVars>>
  \/ part = "change" /\ PackNext /\ UNCHANGED <<vars, hdVars, msgVars, mcVars>>
  \/ part = "wallet" /\ DeriveKeys /\ UNCHANGED <<vars, packVars, msgVars, part, builds>>
  \/ part = "wallet" /\ Messages /\ UNCHANGED <<vars, packVars, mcVars>>

MCSpec == MCInit /\ [][MCNext]_<<vars, packVars, hdVars, msgVars, mcVars>>

=============================================================================
