------------------------------ MODULE UtxoQuery ------------------------------
(***************************************************************************)
(* From what a service says about the UTxOs of an address to the objects   *)
(* of the library: _utxos of the five chain contexts.                      *)
(*                                                                         *)
(* An output on the ledger holds coin, tokens (in the order in which the   *)
(* service lists them), a datum, by hash or inline, and a reference        *)
(* script, native or Plutus, which Blockfrost and Kupo return with some    *)
(* number of CBOR wrappers too many.  Kupo may not know the datum of a     *)
(* hash and may list outputs that have been spent.                         *)
(***************************************************************************)
EXTENDS Integers, Sequences

CONSTANTS
  Services,  \* subset of {"blockfrost", "v5", "v6", "cli", "kupo"}
  Policies, Names,  \* of tokens
  Ledgers    \* sequences of outputs an address may hold

VARIABLES
  ledger,    \* the outputs of the address
  service,   \* the context that is asked
  result     \* of the call: no status yet, or "raised", or "ok" with the UTxOs

queryVars == <<ledger, service, result>>

Plutus == {"v1", "v2", "v3"}

\* An address holds an output, and an output a token, at most once.
ASSUME LedgersAssumption ==
  /\ Services \subseteq {"blockfrost", "v5", "v6", "cli", "kupo"}
  /\ \A outs \in Ledgers :
       /\ Len(outs) \in Nat
       /\ \A i, j \in 1..Len(outs) : outs[i].ref = outs[j].ref => i = j
       /\ \A i \in 1..Len(outs) :
            /\ outs[i].spent \in BOOLEAN /\ outs[i].resolved \in BOOLEAN
            /\ outs[i].datum \in {"none", "hash", "inline"}
            /\ outs[i].script \in [kind : {"none", "native"} \cup Plutus, wraps : Nat]
            /\ outs[i].script.kind = "none" => outs[i].script.wraps = 0
            /\ LET tokens == outs[i].tokens IN
                 /\ Len(tokens) \in Nat
                 /\ \A k \in 1..Len(tokens) : tokens[k].policy \in Policies /\ tokens[k].name \in Names
                 /\ \A k, l \in 1..Len(tokens) :
                      tokens[k].policy = tokens[l].policy /\ tokens[k].name = tokens[l].name => k = l

NoResult == [status |-> "none", utxos |-> <<>>]
Failure == [status |-> "raised", utxos |-> <<>>]

-----------------------------------------------------------------------------

\* multi_assets.setdefault(policy, Asset())[name] = quantity; 0 where there is
\* no key.
SetToken(m, t) == [m EXCEPT ![t.policy][t.name] = t.quantity]

ToMultiAsset(tokens) ==
  LET assets[i \in 0..Len(tokens)] ==
        IF i = 0 THEN [p \in Policies |-> [n \in Names |-> 0]]
        ELSE SetToken(assets[i - 1], tokens[i])
  IN  assets[Len(tokens)]

Raised == [kind |-> "raised", wraps |-> 0]

Unwrapped(s) == [s EXCEPT !.wraps = 0]

\* _try_fix_script: a script whose hash does not match is unwrapped once.
TryFixScript(s) == IF s.wraps <= 1 THEN Unwrapped(s) ELSE Raised

\* The scripts that a context knows: Ogmios v6 and Kupo know no native scripts,
\* v5 and cardano-cli no version 3 (which cardano-cli takes for a native script
\* that it cannot parse).
Known == [v6 |-> Plutus, v5 |-> {"v1", "v2"}, cli |-> {"native", "v1", "v2"},
          kupo |-> Plutus, blockfrost |-> Plutus \cup {"native"}]

\* What a context makes of a reference script, or that it raises.
ToScript(b, s) ==
  IF s.kind = "none" THEN s
  ELSE IF s.kind \notin Known[b] THEN Raised
  ELSE IF b \in {"kupo", "blockfrost"} /\ s.kind \in Plutus THEN TryFixScript(s) ELSE Unwrapped(s)

\* Whether datum_hash is set.  Kupo sets it for inline datums too.
HasDatumHash(b, o) ==
  IF b = "kupo" THEN o.datum # "none" ELSE o.datum = "hash"

\* Whether datum is set.  Kupo looks up the datum of a hash, too: the default
\* of `result.get("datum_type", "inline")` is true, and so is "hash".
HasDatum(b, o) ==
  IF b = "kupo" THEN o.datum # "none" /\ o.resolved ELSE o.datum = "inline"

ToUtxo(b, o) ==
  [ref |-> o.ref, coin |-> o.coin, assets |-> ToMultiAsset(o.tokens),
   hash |-> HasDatumHash(b, o), datum |-> HasDatum(b, o), script |-> ToScript(b, o.script)]

\* utxos, when all outputs have been looked at.  Kupo is asked for unspent outputs
\* and looks again at spent_at.
Collected(b, outs) ==
  LET utxos[i \in 0..Len(outs)] ==
        IF i = 0 THEN <<>>
        ELSE IF b = "kupo" /\ outs[i].spent THEN utxos[i - 1]
        ELSE Append(utxos[i - 1], ToUtxo(b, outs[i]))
  IN  utxos[Len(outs)]

Fails(u) == u.script = Raised

\* Mutant: an output that cannot be converted is skipped.
ConvertSkipping(b, outs) ==
  [status |-> "ok", utxos |-> SelectSeq(Collected(b, outs), LAMBDA u : ~Fails(u))]

\* One output that raises fails the call.
Convert(b, outs) ==
  LET utxos == Collected(b, outs) IN
  IF \E i \in 1..Len(utxos) : Fails(utxos[i]) THEN Failure ELSE [status |-> "ok", utxos |-> utxos]

\* Blockfrost answers 404 for an address it has never seen, which is no UTxOs;
\* any other error of a service is raised.
Utxos ==
  /\ result = NoResult
  /\ result' \in {Convert(service, ledger), Failure}
  /\ UNCHANGED <<ledger, service>>

QueryInit ==
  /\ ledger \in Ledgers
  /\ service \in Services
  /\ \A i \in 1..Len(ledger) : service # "kupo" => ~ledger[i].spent
  /\ result = NoResult

QuerySpec == QueryInit /\ [][Utxos]_queryVars

-----------------------------------------------------------------------------
(* Properties *)

Converted == result.status = "ok"
Returned == result.utxos

Quantity(o, p, n) ==
  LET of == {i \in 1..Len(o.tokens) : o.tokens[i].policy = p /\ o.tokens[i].name = n}
  IN  IF of = {} THEN 0 ELSE o.tokens[CHOOSE i \in of : TRUE].quantity

Same(u, o) ==
  /\ u.coin = o.coin
  /\ \A p \in Policies, n \in Names : u.assets[p][n] = Quantity(o, p, n)
  /\ u.script = Unwrapped(o.script)
  /\ u.hash \/ u.datum <=> o.datum # "none"
  /\ service # "kupo" => (u.hash <=> o.datum = "hash") /\ (u.datum <=> o.datum = "inline")

\* A call that returns returns all unspent outputs of the address, once, and no
\* other: an output it cannot read is never left out.  Each is the one on the
\* ledger: its coin, every token under every policy, its script by hash and its
\* datum, inline or by hash.  Kupo's are known to have a datum, not which way
\* (kupo.py:158-206, ogmios_v6.py:272-317, ogmios_v5.py:313-358,
\* cardano_cli.py:420-470, blockfrost.py:190-246).
UtxosAreLedgers ==
  Converted =>
    /\ {Returned[i].ref : i \in 1..Len(Returned)}
         = {ledger[j].ref : j \in {k \in 1..Len(ledger) : ~ledger[k].spent}}
    /\ \A i, j \in 1..Len(Returned) : Returned[i].ref = Returned[j].ref => i = j
    /\ \A i \in 1..Len(Returned), j \in 1..Len(ledger) :
         Returned[i].ref = ledger[j].ref => Same(Returned[i], ledger[j])

=============================================================================
