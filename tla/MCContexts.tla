----------------------------- MODULE MCContexts -----------------------------
(***************************************************************************)
(* The chain contexts for TLC.  A program is about one of three things:    *)
(* what is cached, what a UTxO is converted to, or a submission.  The      *)
(* other two modules then stay at their initial states.                    *)
(***************************************************************************)
EXTENDS TipContext, UtxoQuery, CliSubmit

VARIABLE part

\* At an address: nothing, one output of every kind, or two.
Tokens == {<<>>,
           <<[policy |-> "p", name |-> "a", quantity |-> 1]>>,
           <<[policy |-> "p", name |-> "a", quantity |-> 1],
             [policy |-> "q", name |-> "a", quantity |-> 2],
             [policy |-> "p", name |-> "b", quantity |-> 3]>>}

MCOutputs(ref) ==
  [ref : {ref}, coin : {ref}, tokens : Tokens, datum : {"none", "hash", "inline"},
   script : [kind : {"native", "v1", "v2", "v3"}, wraps : 0..2]
            \cup {[kind |-> "none", wraps |-> 0]},
   resolved : BOOLEAN, spent : BOOLEAN]

Plain(ref) ==
  [ref |-> ref, coin |-> ref, tokens |-> <<>>, datum |-> "none",
   script |-> [kind |-> "none", wraps |-> 0], resolved |-> FALSE, spent |-> FALSE]

MCLedgers ==
  {<<>>} \cup {<<o>> : o \in MCOutputs(1)} \cup {<<o, Plain(2)>> : o \in MCOutputs(1)}
         \cup {<<Plain(2), o>> : o \in MCOutputs(1)}

MCInit ==
  /\ part \in {"caches", "query", "submit"}
  /\ IF part = "caches" THEN Init
     ELSE Init /\ backend = "v6" /\ wrapper = "none" /\ program = {"utxos"} /\ interval = Default
  /\ IF part = "query" THEN QueryInit ELSE ledger = <<>> /\ service = "v6" /\ result = NoResult
  /\ SubmitInit

MCNext ==
  \/ part = "caches" /\ Next /\ UNCHANGED <<part, queryVars, submitVars>>
  \/ part = "query" /\ Utxos /\ UNCHANGED <<part, vars, submitVars>>
  \/ part = "submit" /\ SubmitNext /\ UNCHANGED <<part, vars, queryVars>>

MCSpec == MCInit /\ [][MCNext]_<<part, vars, queryVars, submitVars>>

=============================================================================
