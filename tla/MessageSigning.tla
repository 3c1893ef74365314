--------------------------- MODULE MessageSigning ---------------------------
(***************************************************************************)
(* sign and verify of cip8.py: a message signed with a payment or a stake  *)
(* key, one of a wallet among them, for the address of the key.            *)
(*                                                                         *)
(* A signing key is [secret, pub, extended, stake], a verification key     *)
(* [of, extended], an address [payment, staking] with the hashes of        *)
(* verification keys or None.  A signed message is [address, kid, payload, *)
(* signature, key]: kid is the key in the header, key the one beside the   *)
(* message, which makes it a dict.  Signatures are external: one is valid  *)
(* for the key of the secret it was made with and for what it was made of. *)
(***************************************************************************)
EXTENDS HDWallet

CONSTANTS
  Payloads,
  Secrets,  \* of keys that are of no wallet
  Nobody    \* None

VARIABLES
  message,  \* a signed message, or Nobody
  verdict   \* what verify(message, arg) comes to: [arg, raises, verified], or Nobody

msgVars == <<message, verdict>>

PlainKey(s, stake) == [secret |-> <<s>>, pub |-> Point(<<s>>), extended |-> FALSE, stake |-> stake]

\* ExtendedSigningKey.from_hdwallet, which wants the private key.
HasSigningKey(w) == w.xprv # NoKey
FromHDWallet(w, stake) == [secret |-> w.xprv.left, pub |-> w.pub, extended |-> TRUE, stake |-> stake]

SigningKeys ==
  {PlainKey(s, stake) : s \in Secrets, stake \in BOOLEAN}
  \cup {FromHDWallet(w, stake) : w \in {v \in {hd} : HasSigningKey(v)}, stake \in BOOLEAN}

\* VerificationKey.hash
KeyHash(vk) == [hashOf |-> vk]

\* Mutant: the chain code is not trimmed off.
NonExtendedKept(key) == [of |-> key.pub, extended |-> key.extended]

\* to_verification_key and to_non_extended.
NonExtended(key) == [of |-> key.pub, extended |-> FALSE]

SignedPart(m) == <<m.address, m.kid, m.payload>>

\* The signature over the headers and the payload.
Complete(m, secret) == [m EXCEPT !.signature = [by |-> Point(secret), over |-> SignedPart(m)]]

\* sign
Sign(key, payload, attach) ==
  LET vk == NonExtended(key)
      m == [address |-> IF key.stake THEN [payment |-> Nobody, staking |-> KeyHash(vk)]
                        ELSE [payment |-> KeyHash(vk), staking |-> Nobody],
            kid |-> IF attach THEN Nobody ELSE vk,
            key |-> IF attach THEN vk ELSE Nobody,
            payload |-> payload, signature |-> Nobody]
  IN  Complete(m, key.secret)

SignMessage ==
  /\ message = Nobody
  /\ \E key \in SigningKeys, payload \in Payloads, attach \in BOOLEAN : message' = Sign(key, payload, attach)
  /\ UNCHANGED <<hdVars, verdict>>

\* A message of another program, which may give the extended key and an address
\* of two keys, or of a key that it did not sign with.
Receive ==
  LET Hashes == {KeyHash([of |-> Point(<<s>>), extended |-> e]) : s \in Secrets, e \in BOOLEAN} \cup {Nobody} IN
  /\ message = Nobody
  /\ \E s \in Secrets, extended, attach \in BOOLEAN, payload \in Payloads, p, st \in Hashes :
       LET vk == [of |-> Point(<<s>>), extended |-> extended] IN
       message' = Complete([address |-> [payment |-> p, staking |-> st],
                            kid |-> IF attach THEN Nobody ELSE vk, key |-> IF attach THEN vk ELSE Nobody,
                            payload |-> payload, signature |-> Nobody], <<s>>)
  /\ UNCHANGED <<hdVars, verdict>>

\* One that was changed on its way.
Alter ==
  /\ message # Nobody /\ verdict = Nobody
  /\ \/ \E payload \in Payloads \ {message.payload} : message' = [message EXCEPT !.payload = payload]
     \/ message' = [message EXCEPT !.key = message.kid, !.kid = message.key]
  /\ UNCHANGED <<hdVars, verdict>>

\* Mutant: one of the two parts suffices.
MatchesEither(address, vk) == KeyHash(vk) \in {address.payment, address.staking}

\* The payment part is compared if there is one, and the hash is that of the whole key.
AddressMatches(address, vk) ==
  IF address.payment # Nobody THEN address.payment = KeyHash(vk) ELSE address.staking = KeyHash(vk)

SignatureValid(m, vk) == m.signature.by = vk.of /\ m.signature.over = SignedPart(m)

\* verify, with attach_cose_key None, TRUE or FALSE.
Verify(arg) ==
  LET attach == IF arg = "None" THEN message.key # Nobody ELSE arg = "True"
      vk == IF attach THEN message.key ELSE message.kid
  IN
  /\ message # Nobody /\ verdict = Nobody
  /\ LET raises == \/ attach # (message.key # Nobody)  \* AssertionError
                   \/ vk = Nobody                      \* KeyError
                   \/ vk.extended /\ ~SignatureValid(message, vk)
     IN  verdict' = [arg |-> arg, raises |-> raises,
                     verified |-> ~raises /\ SignatureValid(message, vk) /\ AddressMatches(message.address, vk)]
  /\ UNCHANGED <<hdVars, message>>

MsgInit == message = Nobody /\ verdict = Nobody

MsgNext ==
  \/ SignMessage \/ Receive \/ Alter
  \/ \E arg \in {"None", "True", "False"} : Verify(arg)

MsgSpec ==
  /\ HDInit /\ MsgInit
  /\ [][(HDNext /\ UNCHANGED msgVars) \/ MsgNext]_<<hdVars, msgVars>>

-----------------------------------------------------------------------------
(* Properties *)

\* A message that verify accepts carries the signature, over what it says, of the
\* key whose hash, extended or not, is the payment part of the address it names, or
\* the staking part where it has no payment part (cip8.py:195-224).
VerifiedMeansSigned ==
  verdict # Nobody /\ verdict.verified =>
    LET a == message.address
    IN  /\ message.signature.over = SignedPart(message)
        /\ \E e \in BOOLEAN :
             LET signer == KeyHash([of |-> message.signature.by, extended |-> e])
             IN  IF a.payment # Nobody THEN a.payment = signer ELSE a.staking = signer

Own(key) == \E attach \in BOOLEAN : message = Sign(key, message.payload, attach)

\* What sign makes verify accepts, unless it is told the wrong form, with a key of a
\* wallet or any other (test_sign_and_verify); only a wallet that was last derived
\* publicly signs with a private key that is not the one of its public key.
SignedVerifies ==
  verdict # Nobody /\ (verdict.arg = "None" \/ (verdict.arg = "True") = (message.key # Nobody)) =>
    \A key \in SigningKeys :
      Own(key) => ~verdict.raises /\ verdict.verified = ~(key.extended /\ hd.mode \in {"public", "stale public"})

=============================================================================
