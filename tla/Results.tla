------------------------------- MODULE Results -------------------------------
(***************************************************************************)
(* What a call comes to: a value, or an exception.  Records are told apart *)
(* by their fields.                                                        *)
(***************************************************************************)
Is(r, kind) == kind \in DOMAIN r

Nil == [nil |-> TRUE]

\* A union catches only DeserializeException.
Ok(v) == [ok |-> v]
Refused == [err |-> "DeserializeException"]
Undecodable == [err |-> "DecodingException"]
Raises == [err |-> "other"]
Failed(r) == Is(r, "err")

Then(r, Op(_)) == IF Failed(r) THEN r ELSE Ok(Op(r.ok))

=============================================================================
